---- MODULE Spec2Model ----
(***************************************************************************)
(* Verification model of word4you: the Raycast extension (CLI manager,     *)
(* word service, hooks, compose view) and the notebook storage / Git sync  *)
(* contract of the CLI it drives.                                          *)
(*                                                                         *)
(* Text is modelled as a sequence of one-character strings.  "Z" stands    *)
(* for one character of the class [\u4e00-\u9fa5] the code tests for,     *)
(* "a" and "b" for Latin letters, "\n" for the line terminator.            *)
(***************************************************************************)
EXTENDS Integers, Sequences, FiniteSets, TLC

VARIABLES
  \* ---- parser (wordService.parseRawWordExplanation)
  output,      \* the text handed to the parser
  parsed,      \* result of the first parse (NULL before)
  rewritten,   \* the fields written back in the output grammar
  reparsed,    \* result of parsing `rewritten`
  ppc,         \* position of the parse / rewrite / reparse run
  \* ---- CLI manager (cliManager.ensureCLI, config.getDownloadUrl)
  platform,    \* os.platform()
  arch,        \* os.arch()
  cliFile,     \* content of {supportPath}/cli/word4you ("none": no file)
  cliExec,     \* whether that file is executable
  tmpDir,      \* whether {supportPath}/.tmp exists
  tmpFile,     \* content of {supportPath}/.tmp/{assetName} ("none": no file)
  epc,         \* per caller: position inside ensureCLI
  eres,        \* per caller: outcome of the current / last call
  edl,         \* per caller: the bytes its HTTP response carries
  emis,        \* per caller: its hash comparison failed in the current call
  ewrote,      \* per caller: "created" / "overwrote" once its current call wrote
               \* the install path, "no" before
  ncalls,      \* resolutions of the CLI path started so far
  pathCli,     \* whether `which word4you` finds a binary on PATH
  einst,       \* per caller: isCliInstalled() when its current / last resolution started
  \* ---- useWords hook (hooks/useWords.ts) and the list view
  initialWord, \* the command's word argument ("" when absent)
  hst,         \* the hook's React state with every queued update applied
  hrn,         \* the state of the last render: what handlers and effects close over
  disk,        \* the vocabulary notebook: its entries in file order
  tasks,       \* the handler invocations suspended at an await
  nops,        \* handler invocations that went past their first await so far
  hpc,         \* position of the mount effect (checkCliInstallation)
  lastSearch,  \* the last handleSearch call: its term and whether it found the word
  \* ---- notebook storage and Git steps of one CLI process
  nbFile,      \* the text of vocabulary_notebook.md
  nbGit,       \* whether Git sync is enabled
  nbRemote,    \* whether the remote holds an entry this notebook lacks
  nbCmd,       \* the running save / delete / update command and its position
  nbPrev,      \* the file when the command started
  nbWritten,   \* the file right after the command's storage write
  nbLog,       \* the entries appended so far, in completion order
  nbPlain,     \* no delete, update or merge has happened yet
  nbRead,      \* the result of the last listing of the notebook
  nbLast,      \* the command that exited last: op, timestamp, status, file it left
  nsaves,      \* save, delete and update commands started so far
  \* ---- Git sync of one notebook between two machines
  mLocal,      \* per machine: the entries of its notebook, in file order
  mRemote,     \* the entries of the notebook at the remote's head
  mFetched,    \* per machine: the remote head its running sync fetched
  mPre,        \* per machine: its notebook and the remote when its sync fetched
  mpc,         \* per machine: "idle", or "push" between pull_and_resolve and push
  mSaved,      \* every entry saved so far
  nentries,    \* saves so far, on both machines
  \* ---- compose view (ComposeWordsView)
  cDefs,       \* savedMdDefinitions: the heading text of every saved entry
  cLoading,    \* isLoadingSaved
  cView,       \* composedSentence, isGenerating, error, currentWords
  cCall,       \* the generateSentence call suspended at an await
  ncompose,    \* generateSentence calls so far
  \* ---- word service: one CLI subprocess call (services/wordService.ts)
  svc,         \* the call: variant, operation, position, subprocess, promise
  nsvc,        \* calls started so far
  \* ---- listing the notebook file (wordService.parseSavedWords)
  rdFile,      \* vocabulary_notebook.md: missing, unreadable, or present with a text
  rdOut,       \* the last listing: returned words, or an exception to the caller
  \* ---- word processor of the CLI and its Git manager
  wpState,     \* the state of the word processor
  wpStep,      \* inside a write path: "write", "stage", "commit", "push"
  wpResult,    \* the explanation being presented (0: none)
  wpShown,     \* what the last preview displayed
  wpQueries,   \* AI queries answered so far
  wpNotebook,  \* the results written to the notebook file, in file order
  wpDirty,     \* the files modified since they were last committed
  wpGitOn,     \* Git sync enabled
  wpOuterRepo, \* the surrounding directory is under Git
  wpGit,       \* the repository at the vocabulary directory
  wpMsg,       \* the last message shown
  nwp,         \* inputs and commands so far
  \* ---- input classifier of the CLI
  clText,      \* the input text
  clResult,    \* its classification (NoClass before the classifier ran)
  \* ---- query entry points called with any text
  enCall,      \* the running call: handler, text, position, toast shown
  enQueried,   \* the texts an AI query was issued for
  nen,         \* calls so far
  \* ---- launch with a word argument (useWords, Word4YouCommand)
  laVariant,   \* which of the two commands is launched
  laArg,       \* the word argument ("" when absent)
  laDisk,      \* the vocabulary notebook
  laSt,        \* the React state with every queued update applied
  laRn,        \* the state of the last render
  laMap,       \* setSavedWordsMap calls so far, and how many the last render saw
  laPc,        \* position of the mount effect
  laTasks,     \* handleSearch calls suspended at an await
  laCalls,     \* the handleSearch calls of the auto-trigger effect, in order
  laReloads,   \* reloads of the saved words after a user's save or delete
  \* ---- status notifications of the handlers
  tAct,        \* the running action: handler, position, toast style, CLI calls made
  tLog,        \* the finished actions with the toast each left
  \* ---- download of the release asset (fetchWithRedirects)
  fetch,       \* the running fetch: the server's chain, redirectCount, position
  nfetch,      \* fetches started so far
  \* ---- compose output parser (parseComposedSentence)
  sentOut,     \* the output of the compose call
  sentParsed,  \* what parseComposedSentence returned for it
  \* ---- notebook location (config.ts)
  locPref,     \* the vocabularyBaseDir preference
  locFiles,    \* the entries of each notebook file on disk
  locList,     \* the saved list loaded last
  locLast,     \* the entry of the last successful save, 0 before the first
  locUnder,    \* the preference in force at the last successful save
  locFresh,    \* the list was reloaded after the last save
  \* ---- command lines of the word service
  cmdCall,     \* the service call being made
  cmdRun       \* what the started process received

parseVars == <<output, parsed, rewritten, reparsed, ppc>>
cliVars == <<platform, arch, cliFile, cliExec, tmpDir, tmpFile, epc, eres, edl, emis,
             ewrote, ncalls, pathCli, einst>>
hookVars == <<initialWord, hst, hrn, disk, tasks, nops, hpc, lastSearch>>
storeVars == <<nbFile, nbGit, nbRemote, nbCmd, nbPrev, nbWritten, nbLog, nbPlain, nbRead,
               nbLast, nsaves>>
syncVars == <<mLocal, mRemote, mFetched, mPre, mpc, mSaved, nentries>>
composeVars == <<cDefs, cLoading, cView, cCall, ncompose>>
svcVars == <<svc, nsvc>>
readVars == <<rdFile, rdOut>>
procVars == <<wpState, wpStep, wpResult, wpShown, wpQueries, wpNotebook, wpDirty, wpGitOn,
              wpOuterRepo, wpGit, wpMsg, nwp>>
classVars == <<clText, clResult>>
midVars == <<svcVars, readVars, procVars>>
entryVars == <<enCall, enQueried, nen>>
launchVars == <<laVariant, laArg, laDisk, laSt, laRn, laMap, laPc, laTasks, laCalls,
                laReloads>>
toastVars == <<tAct, tLog>>
fetchVars == <<fetch, nfetch>>
sentVars == <<sentOut, sentParsed>>
locVars == <<locPref, locFiles, locList, locLast, locUnder, locFresh>>
cmdVars == <<cmdCall, cmdRun>>
extraVars ==
  <<classVars, entryVars, launchVars, toastVars, fetchVars, sentVars, locVars, cmdVars>>
laterVars == <<midVars, extraVars>>
coreVars == <<parseVars, cliVars, hookVars, storeVars, syncVars, composeVars>>
vars == <<coreVars, laterVars>>

\* the null a parse returns from its catch block, and "no result yet"
NULL == [ok |-> FALSE]

\* ------------------------------------------------------------------------
\* Bounds
\* ------------------------------------------------------------------------
MaxTextLen == 4     \* longest exhaustively enumerated parser input
MaxLines == 3       \* most lines of a block built from SampleLines
MaxCalls == 3       \* ensureCLI calls in one run
MaxOps == 3         \* searches, saves and deletes started in one run
MaxSaves == 3       \* commands run against one notebook
MaxEntries == 3     \* entries saved on the two machines together
MaxDefs == 3        \* saved entries the compose view loads
MaxCompose == 2     \* generateSentence calls in one run
MaxSvc == 2         \* word service calls in one run
MaxSections == 3    \* sections of a listed notebook
MaxInputs == 3      \* inputs and commands given to the word processor
MaxTokens == 6      \* tokens of a long classifier input
MaxChars == 8       \* ideographs of a long classifier input
MaxEntryCalls == 2  \* calls of the query entry points
MaxReloads == 1     \* reloads of the saved words after a launch
MaxActions == 2     \* actions whose notification is followed
MaxHops == 7        \* redirects in a server's chain
MaxFetches == 2     \* fetches
MaxArgLen == 3      \* characters of a word and its content together

\* ------------------------------------------------------------------------
\* Text helpers (JavaScript String methods, by what they do)
\* ------------------------------------------------------------------------
Alphabet == {"*", "/", ">", "-", " ", "a", "Z", "\n"}

\* /[\u4e00-\u9fa5]/.test(c) for one character
IsChineseChar(c) == c = "Z"

\* /[\u4e00-\u9fa5]/.test(s)
HasChinese(s) == \E i \in 1..Len(s) : IsChineseChar(s[i])

IsSpace(c) == c \in {" ", "\n"}

\* s.startsWith(p)
StartsWith(s, p) == Len(s) >= Len(p) /\ SubSeq(s, 1, Len(p)) = p

\* s ends with p
EndsWith(s, p) == Len(s) >= Len(p) /\ SubSeq(s, Len(s) - Len(p) + 1, Len(s)) = p

\* s.replace(/^p/, "") for a literal p
StripPrefix(s, p) == IF StartsWith(s, p) THEN SubSeq(s, Len(p) + 1, Len(s)) ELSE s

\* s.replace(/p$/, "") for a literal p
StripSuffix(s, p) == IF EndsWith(s, p) THEN SubSeq(s, 1, Len(s) - Len(p)) ELSE s

RECURSIVE TrimLeft(_)
TrimLeft(s) == IF s # <<>> /\ IsSpace(Head(s)) THEN TrimLeft(Tail(s)) ELSE s

RECURSIVE TrimRight(_)
TrimRight(s) ==
  IF s # <<>> /\ IsSpace(s[Len(s)]) THEN TrimRight(SubSeq(s, 1, Len(s) - 1)) ELSE s

\* s.trim()
Trim(s) == TrimRight(TrimLeft(s))

\* s.split("\n"): the pieces between line terminators (always at least one)
RECURSIVE SplitFrom(_, _, _)
SplitFrom(s, i, cur) ==
  IF i > Len(s) THEN <<cur>>
  ELSE IF s[i] = "\n" THEN <<cur>> \o SplitFrom(s, i + 1, <<>>)
  ELSE SplitFrom(s, i + 1, Append(cur, s[i]))

SplitLines(s) == SplitFrom(s, 1, <<>>)

\* lines.join("\n")
RECURSIVE JoinLines(_)
JoinLines(ls) ==
  IF ls = <<>> THEN <<>>
  ELSE IF Len(ls) = 1 THEN ls[1]
  ELSE ls[1] \o <<"\n">> \o JoinLines(Tail(ls))

\* output.split("\n").map(line => line.trim()).filter(line => line)
NonEmpty(l) == l # <<>>
TrimmedLines(s) ==
  LET raw == SplitLines(s)
  IN SelectSeq([i \in 1..Len(raw) |-> Trim(raw[i])], NonEmpty)

\* ------------------------------------------------------------------------
\* parseRawWordExplanation
\* ------------------------------------------------------------------------
\* /^\*\/.*\/\*$/
IsPronunciationLine(l) == Len(l) >= 4 /\ StartsWith(l, <<"*", "/">>) /\ EndsWith(l, <<"/", "*">>)

\* /^\*\*.*\*\*$/
IsChineseLine(l) == Len(l) >= 4 /\ StartsWith(l, <<"*", "*">>) /\ EndsWith(l, <<"*", "*">>)

\* /^\*.*\*$/
IsStarLine(l) == Len(l) >= 2 /\ l[1] = "*" /\ l[Len(l)] = "*"

\* line.replace(/^> /, "")
DefinitionWrong(l) == StripPrefix(l, <<">">>)
DefinitionOf(l) == StripPrefix(l, <<">", " ">>)

EmptyFields ==
  [ok |-> TRUE, pronunciation |-> <<>>, definition |-> <<>>, chinese |-> <<>>,
   example_en |-> <<>>, example_zh |-> <<>>, tip |-> <<>>]

\* the else-if chain applied to the examples: the first line of each kind wins
ExampleStepWrong(f, text) ==
  IF ~HasChinese(text) THEN [f EXCEPT !.example_en = text]
  ELSE [f EXCEPT !.example_zh = text]
ExampleStep(f, text) ==
  IF ~HasChinese(text) /\ f.example_en = <<>> THEN [f EXCEPT !.example_en = text]
  ELSE IF HasChinese(text) /\ f.example_zh = <<>> THEN [f EXCEPT !.example_zh = text]
  ELSE f

\* the body of the for loop, for one trimmed line
ParseLineWrong(f, l) ==
  IF IsPronunciationLine(l)
    THEN [f EXCEPT !.pronunciation = StripSuffix(StripPrefix(l, <<"*", "/">>), <<"/", "*">>)]
  ELSE IF StartsWith(l, <<">", " ">>)
    THEN [f EXCEPT !.definition = DefinitionOf(l)]
  ELSE IF StartsWith(l, <<"-", " ">>)
    THEN ExampleStep(f, StripPrefix(l, <<"-", " ">>))
  ELSE IF IsStarLine(l) /\ ~IsPronunciationLine(l)
    THEN [f EXCEPT !.tip = StripSuffix(StripPrefix(l, <<"*">>), <<"*">>)]
  ELSE IF IsChineseLine(l)
    THEN [f EXCEPT !.chinese = StripSuffix(StripPrefix(l, <<"*", "*">>), <<"*", "*">>)]
  ELSE f
ParseLine(f, l) ==
  IF IsPronunciationLine(l)
    THEN [f EXCEPT !.pronunciation = StripSuffix(StripPrefix(l, <<"*", "/">>), <<"/", "*">>)]
  ELSE IF StartsWith(l, <<">", " ">>)
    THEN [f EXCEPT !.definition = DefinitionOf(l)]
  ELSE IF IsChineseLine(l)
    THEN [f EXCEPT !.chinese = StripSuffix(StripPrefix(l, <<"*", "*">>), <<"*", "*">>)]
  ELSE IF StartsWith(l, <<"-", " ">>)
    THEN ExampleStep(f, StripPrefix(l, <<"-", " ">>))
  ELSE IF IsStarLine(l) /\ ~IsPronunciationLine(l)
    THEN [f EXCEPT !.tip = StripSuffix(StripPrefix(l, <<"*">>), <<"*">>)]
  ELSE f

RECURSIVE ParseLines(_, _, _)
ParseLines(ls, i, f) ==
  IF i > Len(ls) THEN f ELSE ParseLines(ls, i + 1, ParseLine(f, ls[i]))

\* the structured fields of parseRawWordExplanation(output, word); the word
\* and raw_output are passed through unchanged
parseRawWordExplanation(out) == ParseLines(TrimmedLines(out), 1, EmptyFields)

\* ------------------------------------------------------------------------
\* The fixed output grammar, written back from the structured fields
\* ------------------------------------------------------------------------
FieldLine(pre, content, suf, omit) ==
  IF omit /\ content = <<>> THEN <<>> ELSE <<pre \o content \o suf>>

Serialize(f, omit) ==
  JoinLines(<<<<"#", "#", " ", "w">>>>
            \o FieldLine(<<"*", "/">>, f.pronunciation, <<"/", "*">>, omit)
            \o FieldLine(<<">", " ">>, f.definition, <<>>, omit)
            \o FieldLine(<<"*", "*">>, f.chinese, <<"*", "*">>, omit)
            \o FieldLine(<<"-", " ">>, f.example_en, <<>>, omit)
            \o FieldLine(<<"-", " ">>, f.example_zh, <<>>, omit)
            \o FieldLine(<<"*">>, f.tip, <<"*">>, omit))

\* ------------------------------------------------------------------------
\* Notebook file: the reader of the extension (wordService.parseSavedWords)
\* ------------------------------------------------------------------------
HeadingMark == <<"#", "#", " ">>
TimestampMark == <<"Timestamp: ">>

\* content.split(/(?=^## )/m), each piece then split("\n"): the file is cut
\* before every line that starts with "## "
RECURSIVE SplitSections(_, _, _)
SplitSections(ls, i, cur) ==
  IF i > Len(ls) THEN <<cur>>
  ELSE IF i > 1 /\ StartsWith(ls[i], HeadingMark)
    THEN <<cur>> \o SplitSections(ls, i + 1, <<ls[i]>>)
  ELSE SplitSections(ls, i + 1, Append(cur, ls[i]))

\* wordLine.match(/^## (.+)$/)
HeadingMatchWrong(line) == StartsWith(line, HeadingMark) /\ Len(line) > Len(HeadingMark) + 1
HeadingMatch(line) == StartsWith(line, HeadingMark) /\ Len(line) > Len(HeadingMark)

\* lines[1] && lines[1].match(/^Timestamp: (.+)$/)
SectionTimestamp(sec) ==
  IF Len(sec) >= 2 /\ StartsWith(sec[2], TimestampMark) /\ Len(sec[2]) > Len(TimestampMark)
    THEN StripPrefix(sec[2], TimestampMark)
    ELSE <<>>

\* one section of the loop: skipped (<<>>) or the SavedWord pushed
SectionWord(sec) ==
  IF Trim(JoinLines(sec)) = <<>> THEN <<>>
  ELSE IF ~HeadingMatch(sec[1]) THEN <<>>
  ELSE <<[word |-> Trim(StripPrefix(sec[1], HeadingMark)),
          timestamp |-> SectionTimestamp(sec),
          fields |-> parseRawWordExplanation(JoinLines(Tail(sec)))]>>

RECURSIVE SectionWords(_, _)
SectionWords(secs, i) ==
  IF i > Len(secs) THEN <<>> ELSE SectionWord(secs[i]) \o SectionWords(secs, i + 1)

\* parseSavedWords for an existing, readable file with the given content
parseSavedWords(content) ==
  SectionWords(SplitSections(SplitLines(content), 1, <<>>), 1)

\* ------------------------------------------------------------------------
\* Notebook storage of the CLI (append / replace / remove by timestamp)
\* ------------------------------------------------------------------------
Delimiter == <<"-", "-", "-">>
TimestampLine(ts) == <<"<!-- timestamp=", ts, " -->">>

\* the raw block of an entry: heading line, timestamp comment, field lines
FormatEntry(heading, ts, content) == <<HeadingMark \o heading, TimestampLine(ts)>> \o content

\* append(raw_block): the block followed by a delimiter line
append(file, block) == file \o JoinLines(block) \o <<"\n">> \o Delimiter \o <<"\n">>

\* the pieces between delimiter lines; the last piece is what follows the
\* last delimiter
RECURSIVE PiecesFrom(_, _, _)
PiecesFrom(ls, i, cur) ==
  IF i > Len(ls) THEN <<cur>>
  ELSE IF ls[i] = Delimiter THEN <<cur>> \o PiecesFrom(ls, i + 1, <<>>)
  ELSE PiecesFrom(ls, i + 1, Append(cur, ls[i]))

Pieces(file) == PiecesFrom(SplitLines(file), 1, <<>>)

RECURSIVE JoinPieces(_)
JoinPieces(ps) ==
  IF Len(ps) = 1 THEN ps[1] ELSE ps[1] \o <<Delimiter>> \o JoinPieces(Tail(ps))

\* the file whose pieces are ps
FileOf(ps) == JoinLines(JoinPieces(ps))

\* the timestamp a piece carries ("" when it has none)
PieceTimestamp(piece) ==
  IF \E i \in 1..Len(piece) :
       Len(piece[i]) = 3 /\ piece[i][1] = "<!-- timestamp=" /\ piece[i][3] = " -->"
    THEN piece[CHOOSE i \in 1..Len(piece) :
                 Len(piece[i]) = 3 /\ piece[i][1] = "<!-- timestamp=" /\ piece[i][3] = " -->"][2]
    ELSE ""

Carries(piece, ts) == PieceTimestamp(piece) = ts

\* find_by_timestamp
find_by_timestamp(file, ts) ==
  \E i \in 1..Len(Pieces(file)) : Carries(Pieces(file)[i], ts)

\* remove_by_timestamp: the whole section and its delimiter go
RemovePieceWrong(ps, ts) ==
  LET hit == CHOOSE i \in 1..Len(ps) : Carries(ps[i], ts)
  IN SelectSeq(ps, LAMBDA q : q = <<>> \/ q[1] # ps[hit][1])
RemovePiece(ps, ts) == SelectSeq(ps, LAMBDA q : ~Carries(q, ts))
remove_by_timestampWrong(file, ts) ==
  [status |-> "ok", file |-> FileOf(RemovePiece(Pieces(file), ts))]
remove_by_timestamp(file, ts) ==
  IF ~find_by_timestamp(file, ts) THEN [status |-> "notfound", file |-> file]
  ELSE [status |-> "ok", file |-> FileOf(RemovePiece(Pieces(file), ts))]

\* replace_by_timestamp: the section's raw block is replaced as a whole
ReplacePiece(ps, ts, block) == [i \in 1..Len(ps) |-> IF Carries(ps[i], ts) THEN block ELSE ps[i]]
replace_by_timestamp(file, ts, block) ==
  IF ~find_by_timestamp(file, ts) THEN [status |-> "notfound", file |-> file]
  ELSE [status |-> "ok", file |-> FileOf(ReplacePiece(Pieces(file), ts, block))]


\* ------------------------------------------------------------------------
\* The CLI's save / delete / update commands: storage write, then Git sync
\* ------------------------------------------------------------------------
WordContent == << <<">", " ", "a">>, <<"*", "a", "*">> >>
ExamplesContent == << <<"-", " ", "a">>, <<"-", " ", "Z">> >>
EntryContents == {WordContent, ExamplesContent}
\* what a save is given: a queried word, or a composed sentence
SaveInputs ==
  { [heading |-> <<"a">>, content |-> WordContent],
    [heading |-> <<"a">>, content |-> ExamplesContent],
    [heading |-> <<"a", " ", "+", " ", "b">>, content |-> ExamplesContent] }

\* the timestamp the n-th save creates
TsNames == <<"t1", "t2", "t3", "t4", "t5", "t6">>
\* timestamps a delete or update may name: saved ones, the remote's, an unknown one
DeleteTargets == {"t1", "t2", "t0"}
UpdateTargets == {"t2", "t0"}
\* the heading an update writes
UpdateHeading == <<"a">>

\* the entry another machine pushed to the remote
RemoteBlock == FormatEntry(<<"b">>, "r1", << <<">", " ", "a">> >>)

\* a notebook written before timestamps were stored, with a stray first section
LegacyFile ==
  JoinLines(<< <<"a">>, Delimiter, HeadingMark \o <<"b">>, <<">", " ", "a">>, Delimiter, <<>> >>)

\* no listing of the current file yet
NotRead == [fresh |-> FALSE, words |-> <<>>]

NoLast == [op |-> "none", ts |-> "", status |-> "none", file |-> <<>>]

NoCmd ==
  [op |-> "none", ts |-> "", heading |-> <<>>, content |-> <<>>, pc |-> "idle",
   status |-> "none", warned |-> FALSE, merged |-> FALSE]

StoreIdle ==
  /\ nbFile = <<>>
  /\ nbGit = FALSE
  /\ nbRemote = FALSE
  /\ nbCmd = NoCmd
  /\ nbPrev = <<>>
  /\ nbWritten = <<>>
  /\ nbLog = <<>>
  /\ nbPlain = TRUE
  /\ nbRead = NotRead
  /\ nbLast = NoLast
  /\ nsaves = 0

StoreInit ==
  /\ \/ nbFile = <<>> /\ nbGit \in BOOLEAN
     \/ nbFile = LegacyFile /\ nbGit = FALSE
  /\ nbRemote = nbGit
  /\ nbCmd = NoCmd
  /\ nbPrev = nbFile
  /\ nbWritten = nbFile
  /\ nbLog = <<>>
  /\ nbPlain = (nbFile = <<>>)
  /\ nbRead = NotRead
  /\ nbLast = NoLast
  /\ nsaves = 0

\* `save <content>`: the entry gets its creation timestamp
StartSave ==
  /\ nbCmd.pc = "idle"
  /\ nsaves < MaxSaves
  /\ \E in \in SaveInputs :
       nbCmd' = [NoCmd EXCEPT !.op = "save", !.ts = TsNames[nsaves + 1],
                              !.heading = in.heading, !.content = in.content,
                              !.pc = "write"]
  /\ nsaves' = nsaves + 1
  /\ nbPrev' = nbFile
  /\ UNCHANGED <<nbFile, nbGit, nbRemote, nbWritten, nbLog, nbPlain, nbRead, nbLast>>

\* `delete <timestamp>`
StartDelete ==
  /\ nbCmd.pc = "idle"
  /\ nsaves < MaxSaves
  /\ \E ts \in DeleteTargets :
       nbCmd' = [NoCmd EXCEPT !.op = "delete", !.ts = ts, !.pc = "write"]
  /\ nsaves' = nsaves + 1
  /\ nbPrev' = nbFile
  /\ UNCHANGED <<nbFile, nbGit, nbRemote, nbWritten, nbLog, nbPlain, nbRead, nbLast>>

\* `update <timestamp> --content <content>`
StartUpdate ==
  /\ nbCmd.pc = "idle"
  /\ nsaves < MaxSaves
  /\ \E ts \in UpdateTargets, c \in EntryContents :
       nbCmd' = [NoCmd EXCEPT !.op = "update", !.ts = ts, !.heading = UpdateHeading,
                              !.content = c, !.pc = "write"]
  /\ nsaves' = nsaves + 1
  /\ nbPrev' = nbFile
  /\ UNCHANGED <<nbFile, nbGit, nbRemote, nbWritten, nbLog, nbPlain, nbRead, nbLast>>

\* the storage operation of the command
StorageResult(cmd, file) ==
  IF cmd.op = "save"
    THEN [status |-> "ok", file |-> append(file, FormatEntry(cmd.heading, cmd.ts, cmd.content))]
  ELSE IF cmd.op = "delete" THEN remove_by_timestamp(file, cmd.ts)
  ELSE replace_by_timestamp(file, cmd.ts, FormatEntry(cmd.heading, cmd.ts, cmd.content))

\* the write succeeds, finds no such entry, or fails with an IOFailure that
\* leaves the file as it was
StorageWrite ==
  /\ nbCmd.pc = "write"
  /\ \/ LET r == StorageResult(nbCmd, nbFile)
        IN /\ nbFile' = r.file
           /\ nbWritten' = r.file
           /\ nbCmd' = [nbCmd EXCEPT !.status = r.status,
                                     !.pc = IF r.status = "ok" /\ nbGit THEN "commit"
                                            ELSE "done"]
           /\ nbLog' = IF nbCmd.op = "save"
                         THEN Append(nbLog,
                                [word |-> nbCmd.heading,
                                 fields |-> parseRawWordExplanation(JoinLines(nbCmd.content))])
                         ELSE nbLog
           /\ nbPlain' = (nbPlain /\ (nbCmd.op = "save" \/ r.status # "ok"))
           /\ nbRead' = IF r.file = nbFile THEN nbRead ELSE NotRead
     \/ /\ nbCmd' = [nbCmd EXCEPT !.status = "iofail", !.pc = "done"]
        /\ UNCHANGED <<nbFile, nbWritten, nbLog, nbPlain, nbRead, nbLast>>
  /\ UNCHANGED <<nbGit, nbRemote, nbPrev, nbLast, nsaves>>

\* what a failed Git step leaves in the notebook file: a warning, no rollback
AfterGitFailureWrong(file, prev) == prev
AfterGitFailure(file, prev) == file

GitFails ==
  /\ nbFile' = AfterGitFailure(nbFile, nbPrev)
  /\ nbCmd' = [nbCmd EXCEPT !.warned = TRUE, !.pc = "done"]
  /\ nbRead' = IF nbFile' = nbFile THEN nbRead ELSE NotRead
  /\ UNCHANGED <<nbGit, nbRemote, nbPrev, nbWritten, nbLog, nbPlain, nbLast, nsaves>>

\* commit_all
GitCommit ==
  /\ nbCmd.pc = "commit"
  /\ \/ /\ nbCmd' = [nbCmd EXCEPT !.pc = "pull"]
        /\ UNCHANGED <<nbFile, nbGit, nbRemote, nbPrev, nbWritten, nbLog, nbPlain, nbRead,
                       nbLast, nsaves>>
     \/ GitFails

\* pull_and_resolve: the remote-only entry is merged in
GitPull ==
  /\ nbCmd.pc = "pull"
  /\ \/ /\ nbFile' = IF nbRemote THEN append(nbFile, RemoteBlock) ELSE nbFile
        /\ nbRemote' = FALSE
        /\ nbCmd' = [nbCmd EXCEPT !.pc = "push", !.merged = nbRemote]
        /\ nbPlain' = (nbPlain /\ ~nbRemote)
        /\ nbRead' = IF nbRemote THEN NotRead ELSE nbRead
        /\ UNCHANGED <<nbGit, nbPrev, nbWritten, nbLog, nbLast, nsaves>>
     \/ GitFails

\* push
GitPush ==
  /\ nbCmd.pc = "push"
  /\ \/ /\ nbCmd' = [nbCmd EXCEPT !.pc = "done"]
        /\ UNCHANGED <<nbFile, nbGit, nbRemote, nbPrev, nbWritten, nbLog, nbPlain, nbRead,
                       nbLast, nsaves>>
     \/ GitFails

\* the command exits
CommandExit ==
  /\ nbCmd.pc = "done"
  /\ nbCmd' = NoCmd
  /\ nbLast' = [op |-> nbCmd.op, ts |-> nbCmd.ts, status |-> nbCmd.status, file |-> nbFile]
  /\ UNCHANGED <<nbFile, nbGit, nbRemote, nbPrev, nbWritten, nbLog, nbPlain, nbRead, nsaves>>

\* the extension lists the notebook (loadSavedWords -> parseSavedWords)
ListSaved ==
  /\ nbCmd.pc = "idle"
  /\ nbRead' = [fresh |-> TRUE, words |-> parseSavedWords(nbFile)]
  /\ UNCHANGED <<nbFile, nbGit, nbRemote, nbCmd, nbPrev, nbWritten, nbLog, nbPlain, nbLast,
                 nsaves>>

StoreNext ==
  /\ UNCHANGED <<parseVars, cliVars, hookVars, syncVars, composeVars, laterVars>>
  /\ \/ StartSave
     \/ StartDelete
     \/ StartUpdate
     \/ StorageWrite
     \/ GitCommit
     \/ GitPull
     \/ GitPush
     \/ CommandExit
     \/ ListSaved


\* ------------------------------------------------------------------------
\* CLI manager: config.getDownloadUrl and cliManager.ensureCLI
\* ------------------------------------------------------------------------
\* The two places a run of the extension calls ensureCLI from: the mount
\* effect of useWords (checkCliInstallation) and getExecutablePathAsync, which
\* every word-service call awaits.  Both run on the one event loop and
\* interleave at their awaits.
Callers == {"launch", "query"}

Platforms == {"darwin", "linux", "win32"}
Archs == {"arm64", "x64", "ia32"}

\* CLI_CONFIG.assets
Assets ==
  [k \in {"darwin-arm64", "darwin-x64", "linux-x64"} |->
     CASE k = "darwin-arm64" -> "word4you-aarch64-apple-darwin"
       [] k = "darwin-x64" -> "word4you-x86_64-apple-darwin"
       [] k = "linux-x64" -> "word4you-x86_64-unknown-linux-gnu"]

AssetNames == {Assets[k] : k \in DOMAIN Assets}

\* File contents: the authentic bytes of a release asset (named by the asset),
\* other bytes, or a file that is still being written.
Contents == AssetNames \cup {"corrupt", "partial"}

\* SHA-256 digest of a content (verifyFileHash): one digest per content
Sha256(c) == <<"sha256", c>>

\* CLI_CONFIG.hashes: the pinned digest of each asset's authentic bytes
Hashes == [a \in AssetNames |-> Sha256(a)]

\* getDownloadUrl(): the asset for the platform, or "throw"
PlatformKey(p, a) ==
  IF p # "darwin" /\ p # "linux" THEN "throw"
  ELSE IF p = "darwin" THEN (IF a = "arm64" THEN "darwin-arm64" ELSE "darwin-x64")
  ELSE IF p = "linux" /\ a = "x64" THEN "linux-x64"
  ELSE "throw"

getDownloadUrl(p, a) ==
  IF PlatformKey(p, a) = "throw" THEN [throws |-> TRUE]
  ELSE [throws |-> FALSE,
        assetName |-> Assets[PlatformKey(p, a)],
        expectedHash |-> Hashes[Assets[PlatformKey(p, a)]]]

\* the parser is not running
ParseIdle ==
  /\ output = <<>>
  /\ parsed = NULL
  /\ rewritten = <<>>
  /\ reparsed = NULL
  /\ ppc = "input"

\* no call running, nothing installed, no temporary directory
CliIdle ==
  /\ platform = "darwin"
  /\ arch = "arm64"
  /\ cliFile = "none"
  /\ cliExec = FALSE
  /\ tmpDir = FALSE
  /\ tmpFile = "none"
  /\ epc = [c \in Callers |-> "idle"]
  /\ eres = [c \in Callers |-> "none"]
  /\ edl = [c \in Callers |-> "none"]
  /\ emis = [c \in Callers |-> FALSE]
  /\ ewrote = [c \in Callers |-> "no"]
  /\ ncalls = 0
  /\ pathCli = FALSE
  /\ einst = [c \in Callers |-> FALSE]

\* the extension starts with or without an installed CLI
CliInit ==
  /\ platform \in Platforms
  /\ arch \in Archs
  /\ \/ cliFile = "none" /\ cliExec = FALSE
     \/ cliFile \in AssetNames /\ cliExec = TRUE
  /\ tmpDir = FALSE
  /\ tmpFile = "none"
  /\ epc = [c \in Callers |-> "idle"]
  /\ eres = [c \in Callers |-> "none"]
  /\ edl = [c \in Callers |-> "none"]
  /\ emis = [c \in Callers |-> FALSE]
  /\ ewrote = [c \in Callers |-> "no"]
  /\ ncalls = 0
  /\ pathCli \in BOOLEAN
  /\ einst = [c \in Callers |-> FALSE]

\* a finally block that removes the directory only after a failure
FinallyWrong(c, result) ==
  /\ eres' = [eres EXCEPT ![c] = result]
  /\ epc' = [epc EXCEPT ![c] = IF tmpDir /\ result # "ok" THEN "rm" ELSE "done"]

\* the catch block rethrows; the finally block tests existsSync(tempDir) in the
\* same tick and, when the directory is there, awaits its removal
Finally(c, result) ==
  /\ eres' = [eres EXCEPT ![c] = result]
  /\ epc' = [epc EXCEPT ![c] = IF tmpDir THEN "rm" ELSE "done"]

\* isCliInstalled(): the downloaded copy exists, or `which word4you` succeeds
isCliInstalled == cliFile # "none" \/ pathCli

\* whether the caller goes on without ensureCLI: useWords' mount effect when
\* isCliInstalled(), getExecutablePathAsync when the binary is on PATH
SkipsEnsureWrong(c) == c = "launch" /\ isCliInstalled
SkipsEnsure(c) == IF c = "launch" THEN isCliInstalled ELSE pathCli

\* the caller's own test: checkCliInstallation up to `await showToast`,
\* getExecutablePathAsync up to its call of ensureCLI
CallerCheck(c) ==
  /\ epc[c] = "idle"
  /\ ncalls < MaxCalls
  /\ ncalls' = ncalls + 1
  /\ einst' = [einst EXCEPT ![c] = isCliInstalled]
  /\ emis' = [emis EXCEPT ![c] = FALSE]
  /\ ewrote' = [ewrote EXCEPT ![c] = "no"]
  /\ edl' = [edl EXCEPT ![c] = "none"]
  /\ IF SkipsEnsure(c)
       THEN /\ eres' = [eres EXCEPT ![c] = IF c = "launch" THEN "installed" ELSE "path"]
            /\ epc' = [epc EXCEPT ![c] = "done"]
       ELSE /\ eres' = [eres EXCEPT ![c] = "none"]
            /\ epc' = [epc EXCEPT ![c] = "call"]
  /\ UNCHANGED <<pathCli, platform, arch, cliFile, cliExec, tmpDir, tmpFile>>

\* ensureCLI up to its first await: existsSync(cli), getDownloadUrl()
EnsureStart(c) ==
  /\ epc[c] = "call"
  /\ IF cliFile # "none"
       THEN /\ eres' = [eres EXCEPT ![c] = "ok"]
            /\ epc' = [epc EXCEPT ![c] = "done"]
       ELSE IF getDownloadUrl(platform, arch).throws
         THEN /\ eres' = [eres EXCEPT ![c] = "unsupported"]
              /\ epc' = [epc EXCEPT ![c] = "done"]
         ELSE /\ eres' = [eres EXCEPT ![c] = "none"]
              /\ epc' = [epc EXCEPT ![c] = "mkdirTmp"]
  /\ UNCHANGED <<pathCli, einst, platform, arch, cliFile, cliExec, tmpDir, tmpFile, edl,
                 emis, ewrote, ncalls>>

\* download: await mkdir(destDir, { recursive: true })
DownloadMkdir(c) ==
  /\ epc[c] = "mkdirTmp"
  /\ \/ /\ tmpDir' = TRUE
        /\ epc' = [epc EXCEPT ![c] = "fetch"]
        /\ UNCHANGED eres
     \/ /\ Finally(c, "error")
        /\ UNCHANGED tmpDir
  /\ UNCHANGED <<pathCli, einst, platform, arch, cliFile, cliExec, tmpFile, edl, emis, ewrote, ncalls>>

\* download: the response arrives; a 200 opens createWriteStream(destPath),
\* which truncates the file; anything else rejects
DownloadResponse(c) ==
  /\ epc[c] = "fetch"
  /\ \/ /\ tmpDir
        /\ \E bytes \in {getDownloadUrl(platform, arch).assetName, "corrupt"} :
             edl' = [edl EXCEPT ![c] = bytes]
        /\ tmpFile' = "partial"
        /\ epc' = [epc EXCEPT ![c] = "writing"]
        /\ UNCHANGED eres
     \/ /\ Finally(c, "error")
        /\ UNCHANGED <<tmpFile, edl>>
  /\ UNCHANGED <<pathCli, einst, platform, arch, cliFile, cliExec, tmpDir, emis, ewrote, ncalls>>

\* download: the stream pipeline ends.  The bytes land in the file unless the
\* directory was removed meanwhile; while another caller's stream writes the
\* same path the result of the two writers is either.
DownloadWritten(c) ==
  /\ epc[c] = "writing"
  /\ \/ /\ tmpFile' \in
             IF tmpFile = "none" THEN {"none"}
             ELSE IF \E o \in Callers \ {c} : epc[o] = "writing" THEN {"partial", edl[c]}
             ELSE {edl[c]}
        /\ epc' = [epc EXCEPT ![c] = "hash"]
        /\ UNCHANGED eres
     \/ /\ Finally(c, "error")
        /\ UNCHANGED tmpFile
  /\ UNCHANGED <<pathCli, einst, platform, arch, cliFile, cliExec, tmpDir, edl, emis, ewrote, ncalls>>

\* verifyFileHash resolves (or rejects: the file is gone) and the digest is
\* compared with the pinned one
VerifyHash(c) ==
  /\ epc[c] = "hash"
  /\ IF tmpFile = "none"
       THEN /\ Finally(c, "error")
            /\ UNCHANGED emis
       ELSE IF Sha256(tmpFile) # getDownloadUrl(platform, arch).expectedHash
         THEN /\ Finally(c, "hash-mismatch")
              /\ emis' = [emis EXCEPT ![c] = TRUE]
         ELSE /\ epc' = [epc EXCEPT ![c] = "mkdirBin"]
              /\ UNCHANGED <<eres, emis>>
  /\ UNCHANGED <<pathCli, einst, platform, arch, cliFile, cliExec, tmpDir, tmpFile, edl, ewrote, ncalls>>

\* await mkdir(binDir) resolves, then fs.copyFileSync(downloadedFile, cli)
InstallCopy(c) ==
  /\ epc[c] = "mkdirBin"
  /\ \/ /\ tmpFile # "none"
        /\ cliFile' = tmpFile
        /\ cliExec' = FALSE
        /\ ewrote' = [ewrote EXCEPT ![c] = IF cliFile = "none" THEN "created" ELSE "overwrote"]
        /\ epc' = [epc EXCEPT ![c] = "chmod"]
        /\ UNCHANGED eres
     \/ /\ Finally(c, "error")
        /\ UNCHANGED <<cliFile, cliExec, ewrote>>
  /\ UNCHANGED <<pathCli, einst, platform, arch, tmpDir, tmpFile, edl, emis, ncalls>>

\* await chmod(cli, "755"), return cli
InstallChmod(c) ==
  /\ epc[c] = "chmod"
  /\ \/ /\ cliExec' = TRUE
        /\ Finally(c, "ok")
     \/ /\ Finally(c, "error")
        /\ UNCHANGED cliExec
  /\ UNCHANGED <<pathCli, einst, platform, arch, cliFile, tmpDir, tmpFile, edl, emis, ewrote, ncalls>>

\* finally: await rm(tempDir, { recursive: true, force: true })
CleanupTmp(c) ==
  /\ epc[c] = "rm"
  /\ tmpDir' = FALSE
  /\ tmpFile' = "none"
  /\ epc' = [epc EXCEPT ![c] = "done"]
  /\ UNCHANGED <<pathCli, einst, platform, arch, cliFile, cliExec, eres, edl, emis, ewrote, ncalls>>

\* the promise settles; the caller may call again later
EnsureSettled(c) ==
  /\ epc[c] = "done"
  /\ epc' = [epc EXCEPT ![c] = "idle"]
  /\ UNCHANGED <<pathCli, einst, platform, arch, cliFile, cliExec, tmpDir, tmpFile, eres, edl, emis,
                 ewrote, ncalls>>

CliNext ==
  /\ UNCHANGED <<parseVars, hookVars, storeVars, syncVars, composeVars, laterVars>>
  /\ \E c \in Callers :
       \/ CallerCheck(c)
       \/ EnsureStart(c)
       \/ DownloadMkdir(c)
       \/ DownloadResponse(c)
       \/ DownloadWritten(c)
       \/ VerifyHash(c)
       \/ InstallCopy(c)
       \/ InstallChmod(c)
       \/ CleanupTmp(c)
       \/ EnsureSettled(c)



\* ------------------------------------------------------------------------
\* useWords hook and WordListView
\* ------------------------------------------------------------------------
\* String.prototype.toLowerCase over the letters used here
ToLowerChar(c) == IF c = "H" THEN "h" ELSE IF c = "I" THEN "i" ELSE c
ToLower(s) == [i \in 1..Len(s) |-> ToLowerChar(s[i])]

\* String.prototype.includes
Includes(s, sub) ==
  \E i \in 1..(Len(s) + 1) :
    /\ i + Len(sub) - 1 <= Len(s)
    /\ SubSeq(s, i, i + Len(sub) - 1) = sub

\* texts the user types into the search bar / passes as argument
SearchTexts == {<<>>, <<" ", "H", "I">>}
InitialWords == {<<>>, <<"h", "I", " ">>}

\* notebooks the extension may find at launch (heading, timestamp)
Entry(w, t) == [word |-> w, timestamp |-> t]
InitialNotebooks ==
  { <<>>, <<Entry(<<"a">>, 101), Entry(<<"a">>, 102)>> }

\* aiResult: null, or the object a query returned (id tells two objects
\* with the same word apart, as the effect dependencies do)
AiNull == [ok |-> FALSE, word |-> <<>>, id |-> 0]

\* the map loadSavedWords builds: words.forEach(w => map.set(w.word.toLowerCase(), w))
MapKeyWrong(w) == w.word
MapKey(w) == ToLower(w.word)
BuildMap(words) ==
  [k \in {MapKey(words[i]) : i \in 1..Len(words)} |->
     words[CHOOSE i \in 1..Len(words) :
             /\ MapKey(words[i]) = k
             /\ \A j \in (i + 1)..Len(words) : MapKey(words[j]) # k]]

\* useState initial values
InitialState(arg) ==
  [searchText |-> arg, savedWords |-> <<>>, aiResult |-> AiNull, isLoading |-> FALSE,
   isLoadingSaved |-> TRUE, isSaving |-> FALSE, cliInstalled |-> "null",
   savedWordsMap |-> BuildMap(<<>>)]

\* loadSavedWords: parseSavedWords(path), setSavedWords, setSavedWordsMap,
\* finally setIsLoadingSaved(false)
loadSavedWords(s, notebook) ==
  [s EXCEPT !.savedWords = notebook, !.savedWordsMap = BuildMap(notebook),
            !.isLoadingSaved = FALSE]

\* handleSearch up to its first await, run with the closure cl on the queued
\* state s: the state it leaves and whether it goes on to query the AI
SearchLookupWrong(cl, term) == term \in DOMAIN cl.savedWordsMap
SearchLookup(cl, term) == ToLower(term) \in DOMAIN cl.savedWordsMap
handleSearch(cl, s, term) ==
  IF Trim(term) = <<>> THEN [state |-> [s EXCEPT !.aiResult = AiNull], query |-> FALSE]
  ELSE IF SearchLookup(cl, term)
    THEN [state |-> [s EXCEPT !.aiResult = AiNull], query |-> FALSE]
  ELSE [state |-> [s EXCEPT !.aiResult = AiNull, !.isLoading = TRUE], query |-> TRUE]

\* whether term equals, ignoring case, the heading of an entry of the map
InLoadedMap(cl, term) ==
  \E k \in DOMAIN cl.savedWordsMap : ToLower(cl.savedWordsMap[k].word) = ToLower(term)

SearchTask(term, cl) ==
  [id |-> nops + 1, kind |-> "search", pc |-> "toast", word |-> term, timestamp |-> 0,
   selected |-> 0, saved |-> InLoadedMap(cl, term)]

\* what a render shows: filteredSavedWords and allWords
FilteredSavedWords(r) ==
  SelectSeq(r.savedWords,
            LAMBDA w : Trim(r.searchText) = <<>>
                       \/ Includes(ToLower(w.word), ToLower(r.searchText)))
AllWordsEmpty(r) == ~r.aiResult.ok /\ FilteredSavedWords(r) = <<>>
\* WordListView: isAiResult = aiResult && word.word === aiResult.word
IsAiResult(r, w) == r.aiResult.ok /\ w = r.aiResult.word
ListShown(r) == r.cliInstalled # "false"

HookIdle ==
  /\ initialWord = <<>>
  /\ hst = InitialState(<<>>)
  /\ hrn = InitialState(<<>>)
  /\ disk = <<>>
  /\ tasks = {}
  /\ nops = 0
  /\ hpc = "start"
  /\ lastSearch = [term |-> <<>>, found |-> FALSE]

\* the command is launched: first render with the initial state
HookInit ==
  /\ initialWord \in InitialWords
  /\ hst = InitialState(initialWord)
  /\ hrn = hst
  /\ disk \in InitialNotebooks
  /\ tasks = {}
  /\ nops = 0
  /\ hpc = "start"
  /\ lastSearch = [term |-> <<>>, found |-> FALSE]

\* a mount effect that creates the notebook file anew
MountWrong ==
  /\ hpc = "start"
  /\ hst' = loadSavedWords([hst EXCEPT !.cliInstalled = "true"], <<>>)
  /\ hpc' = "ready"
  /\ disk' = <<>>
  /\ UNCHANGED <<initialWord, hrn, tasks, nops, lastSearch>>

\* mount effect: checkCliInstallation with the CLI installed, or up to
\* `await ensureCLI()` without it
Mount ==
  /\ hpc = "start"
  /\ \/ /\ hst' = loadSavedWords([hst EXCEPT !.cliInstalled = "true"], disk)
        /\ hpc' = "ready"
     \/ /\ hpc' = "ensure"
        /\ UNCHANGED hst
  /\ UNCHANGED <<initialWord, hrn, disk, tasks, nops, lastSearch>>

\* ensureCLI settles
EnsureDone ==
  /\ hpc = "ensure"
  /\ \/ /\ hst' = loadSavedWords([hst EXCEPT !.cliInstalled = "true"], disk)
        /\ hpc' = "ready"
     \/ /\ hst' = [hst EXCEPT !.cliInstalled = "false"]
        /\ hpc' = "failed"
  /\ UNCHANGED <<initialWord, hrn, disk, tasks, nops, lastSearch>>

\* React renders the queued state and runs the effects whose dependencies
\* changed: the auto-trigger effect ([initialWord, isLoadingSaved]) and the
\* clear-AI-result effect ([searchText, aiResult])
Render ==
  /\ hpc # "start"
  /\ hst # hrn
  /\ hrn' = hst
  /\ LET auto == /\ hst.isLoadingSaved # hrn.isLoadingSaved
                 /\ Trim(initialWord) # <<>>
                 /\ ~hst.isLoadingSaved
         term == Trim(initialWord)
         r == handleSearch(hst, [hst EXCEPT !.searchText = term], term)
         s1 == IF auto THEN r.state ELSE hst
         clear == /\ (hst.searchText # hrn.searchText \/ hst.aiResult # hrn.aiResult)
                  /\ hst.aiResult.ok
                  /\ Trim(hst.searchText) # hst.aiResult.word
     IN /\ hst' = IF clear THEN [s1 EXCEPT !.aiResult = AiNull] ELSE s1
        /\ IF auto
             THEN /\ lastSearch' = [term |-> term, found |-> ~r.query]
                  /\ IF r.query
                       THEN /\ nops < MaxOps
                            /\ tasks' = tasks \cup {SearchTask(term, hst)}
                            /\ nops' = nops + 1
                       ELSE UNCHANGED <<tasks, nops>>
             ELSE UNCHANGED <<tasks, nops, lastSearch>>
  /\ UNCHANGED <<initialWord, disk, hpc>>

\* onSearchTextChange = setSearchText
TypeSearchText ==
  /\ ListShown(hrn)
  /\ \E text \in SearchTexts :
       /\ text # hst.searchText
       /\ hst' = [hst EXCEPT !.searchText = text]
  /\ UNCHANGED <<initialWord, hrn, disk, tasks, nops, hpc, lastSearch>>

\* EmptyView action: onSearch(searchText.trim())
UISearch ==
  /\ ListShown(hrn)
  /\ AllWordsEmpty(hrn)
  /\ ~hrn.isLoading
  /\ Trim(hrn.searchText) # <<>>
  /\ LET term == Trim(hrn.searchText)
         r == handleSearch(hrn, hst, term)
     IN /\ hst' = r.state
        /\ lastSearch' = [term |-> term, found |-> ~r.query]
        /\ IF r.query
             THEN /\ nops < MaxOps
                  /\ tasks' = tasks \cup {SearchTask(term, hrn)}
                  /\ nops' = nops + 1
             ELSE UNCHANGED <<tasks, nops>>
  /\ UNCHANGED <<initialWord, hrn, disk, hpc>>

\* handleSearch: `await showToast` resolves and getWordExplanation is called,
\* or showToast rejects
SearchToast ==
  /\ \E t \in tasks :
       /\ t.kind = "search"
       /\ t.pc = "toast"
       /\ \/ tasks' = (tasks \ {t}) \cup {[t EXCEPT !.pc = "query"]}
          \/ tasks' = tasks \ {t}
  /\ UNCHANGED <<initialWord, hst, hrn, disk, nops, hpc, lastSearch>>

\* handleSearch: getWordExplanation settles
SearchResult ==
  /\ \E t \in tasks :
       /\ t.kind = "search"
       /\ t.pc = "query"
       /\ tasks' = tasks \ {t}
       /\ \E result \in {[ok |-> TRUE, word |-> Trim(t.word), id |-> t.id], AiNull} :
            hst' = [hst EXCEPT !.aiResult = result, !.isLoading = FALSE]
  /\ UNCHANGED <<initialWord, hrn, disk, nops, hpc, lastSearch>>

\* "Save to Vocabulary" on the item marked as AI result: handleSave up to
\* `await showToast`
UISave ==
  /\ ListShown(hrn)
  /\ hrn.aiResult.ok
  /\ IF hrn.isSaving
       THEN UNCHANGED <<hst, tasks, nops>>
       ELSE /\ nops < MaxOps
            /\ hst' = [hst EXCEPT !.isSaving = TRUE]
            /\ tasks' = tasks \cup
                 {[id |-> nops + 1, kind |-> "save", pc |-> "toast",
                   word |-> hrn.aiResult.word, timestamp |-> 0, selected |-> 0,
                   saved |-> FALSE]}
            /\ nops' = nops + 1
  /\ UNCHANGED <<initialWord, hrn, disk, hpc, lastSearch>>

\* "Delete Word" on a saved item: handleDelete up to `await showToast`
UIDelete ==
  /\ ListShown(hrn)
  /\ nops < MaxOps
  /\ \E i \in 1..Len(FilteredSavedWords(hrn)) :
       LET w == FilteredSavedWords(hrn)[i]
       IN /\ ~IsAiResult(hrn, w.word)
          /\ tasks' = tasks \cup
               {[id |-> nops + 1, kind |-> "delete", pc |-> "toast", word |-> w.word,
                 timestamp |-> w.timestamp, selected |-> w.timestamp, saved |-> FALSE]}
  /\ nops' = nops + 1
  /\ UNCHANGED <<initialWord, hst, hrn, disk, hpc, lastSearch>>

\* the timestamp argument of a call that passes none (undefined)
NoTimestamp == 0

\* what the "Update Word" action hands to updateWordInVocabulary as timestamp:
\* onUpdate(word.word) reaches handleUpdate(word), which passes undefined
UpdateTimestamp(w) == NoTimestamp

\* "Update Word" on a saved item: handleUpdate up to `await showToast`
UIUpdate ==
  /\ ListShown(hrn)
  /\ nops < MaxOps
  /\ \E i \in 1..Len(FilteredSavedWords(hrn)) :
       LET w == FilteredSavedWords(hrn)[i]
       IN /\ ~IsAiResult(hrn, w.word)
          /\ tasks' = tasks \cup
               {[id |-> nops + 1, kind |-> "update", pc |-> "toast", word |-> w.word,
                 timestamp |-> UpdateTimestamp(w), selected |-> w.timestamp,
                 saved |-> FALSE]}
  /\ nops' = nops + 1
  /\ UNCHANGED <<initialWord, hst, hrn, disk, hpc, lastSearch>>

\* handleUpdate: `await showToast` resolves and getWordExplanation is called,
\* or showToast rejects
UpdateToast ==
  /\ \E t \in tasks :
       /\ t.kind = "update"
       /\ t.pc = "toast"
       /\ \/ tasks' = (tasks \ {t}) \cup {[t EXCEPT !.pc = "query"]}
          \/ tasks' = tasks \ {t}
  /\ UNCHANGED <<initialWord, hst, hrn, disk, nops, hpc, lastSearch>>

\* handleUpdate: getWordExplanation settles; without a fresh result the
\* handler returns, with one it starts updateWordInVocabulary
UpdateQuery ==
  /\ \E t \in tasks :
       /\ t.kind = "update"
       /\ t.pc = "query"
       /\ \/ tasks' = (tasks \ {t}) \cup {[t EXCEPT !.pc = "cli"]}
          \/ tasks' = tasks \ {t}
  /\ UNCHANGED <<initialWord, hst, hrn, disk, nops, hpc, lastSearch>>

\* handleSave / handleDelete: `await showToast` resolves and the CLI is
\* started, or showToast rejects
MutationToast ==
  /\ \E t \in tasks :
       /\ t.kind \in {"save", "delete"}
       /\ t.pc = "toast"
       /\ \/ tasks' = (tasks \ {t}) \cup {[t EXCEPT !.pc = "cli"]}
          \/ tasks' = tasks \ {t}
  /\ UNCHANGED <<initialWord, hst, hrn, disk, nops, hpc, lastSearch>>

\* the notebook after the CLI's save and delete commands
CliSave(nb, w, id) == Append(nb, Entry(w, id))
CliDelete(nb, ts) == SelectSeq(nb, LAMBDA e : e.timestamp # ts)

\* handleSave when the save call reported failure: the toast turns to
\* Failure, then finally setIsSaving(false)
SaveFailedWrong(s) == [s EXCEPT !.aiResult = AiNull, !.isSaving = FALSE]
SaveFailed(s) == [s EXCEPT !.isSaving = FALSE]

\* handleSave: saveWordToVocabulary settles
SaveDone ==
  /\ \E t \in tasks :
       /\ t.kind = "save"
       /\ t.pc = "cli"
       /\ tasks' = tasks \ {t}
       /\ \/ /\ disk' = CliSave(disk, t.word, t.id)
             /\ hst' = [loadSavedWords(hst, disk') EXCEPT !.aiResult = AiNull,
                                                          !.isSaving = FALSE]
          \/ /\ hst' = SaveFailed(hst)
             /\ UNCHANGED disk
  /\ UNCHANGED <<initialWord, hrn, nops, hpc, lastSearch>>

\* handleDelete: deleteWordFromVocabulary settles
DeleteDone ==
  /\ \E t \in tasks :
       /\ t.kind = "delete"
       /\ t.pc = "cli"
       /\ tasks' = tasks \ {t}
       /\ \/ /\ disk' = CliDelete(disk, t.timestamp)
             /\ hst' = loadSavedWords(hst, disk')
          \/ UNCHANGED <<disk, hst>>
  /\ UNCHANGED <<initialWord, hrn, nops, hpc, lastSearch>>

\* handleUpdate: updateWordInVocabulary settles.  An update rewrites the
\* fields of an entry; headings and timestamps, which is all `disk` records,
\* stay as they are
UpdateDone ==
  /\ \E t \in tasks :
       /\ t.kind = "update"
       /\ t.pc = "cli"
       /\ tasks' = tasks \ {t}
       /\ \/ hst' = loadSavedWords(hst, disk)
          \/ UNCHANGED hst
  /\ UNCHANGED <<initialWord, hrn, disk, nops, hpc, lastSearch>>

HookNext ==
  /\ UNCHANGED <<parseVars, cliVars, storeVars, syncVars, composeVars, laterVars>>
  /\ \/ Mount
     \/ EnsureDone
     \/ Render
     \/ TypeSearchText
     \/ UISearch
     \/ SearchToast
     \/ SearchResult
     \/ UISave
     \/ UIDelete
     \/ MutationToast
     \/ SaveDone
     \/ DeleteDone
     \/ UIUpdate
     \/ UpdateToast
     \/ UpdateQuery
     \/ UpdateDone


BlockOf(file, ts) ==
  Pieces(file)[CHOOSE i \in 1..Len(Pieces(file)) : Carries(Pieces(file)[i], ts)]

\* the change the running command wrote is in the file
WrittenChangeKept ==
  IF nbCmd.op = "delete" THEN ~find_by_timestamp(nbFile, nbCmd.ts)
  ELSE /\ find_by_timestamp(nbFile, nbCmd.ts)
       /\ BlockOf(nbFile, nbCmd.ts) = FormatEntry(nbCmd.heading, nbCmd.ts, nbCmd.content)

\* C4: when a Git step fails after the storage write succeeded, the command
\* ends with a warning, the written change is still in the notebook, and
\* unless a merge added remote entries the file is exactly what was written.
C4_GitFailureKeepsWrite ==
  nbCmd.warned =>
    /\ nbCmd.pc = "done"
    /\ nbCmd.status = "ok"
    /\ WrittenChangeKept
    /\ (~nbCmd.merged => nbFile = nbWritten)

\* a save whose push fails after the pull merged a remote entry
C4_Witness ==
  /\ nbCmd.warned
  /\ nbCmd.op = "save"
  /\ nbCmd.merged
  /\ nbFile # nbPrev
  /\ nbFile # nbWritten

\* C5: a delete naming a timestamp no entry carries ends not-found (or with
\* the I/O failure of reading the file) and leaves the file identical; after
\* a successful delete no entry carries the timestamp, and a repeated delete
\* of it leaves the file as the first delete left it.
C5_DeleteNotFound ==
  nbCmd.op = "delete" /\ nbCmd.pc = "done" =>
    /\ ~find_by_timestamp(nbPrev, nbCmd.ts) =>
         nbCmd.status \in {"notfound", "iofail"} /\ nbFile = nbPrev
    /\ nbCmd.status = "ok" => ~find_by_timestamp(nbFile, nbCmd.ts)
    /\ nbLast.op = "delete" /\ nbLast.status = "ok" /\ nbLast.ts = nbCmd.ts =>
         nbCmd.status # "ok" /\ nbFile = nbLast.file

\* the same timestamp deleted twice: the second delete finds nothing
C5_Witness ==
  /\ nbCmd.op = "delete"
  /\ nbCmd.pc = "done"
  /\ nbCmd.status = "notfound"
  /\ nbLast.op = "delete"
  /\ nbLast.status = "ok"
  /\ nbLast.ts = nbCmd.ts
  /\ nbFile # <<>>

\* the raw blocks of all sections but the one carrying ts, in file order
OtherPieces(file, ts) == SelectSeq(Pieces(file), LAMBDA q : ~Carries(q, ts))

\* C6: the write of a successful delete or update leaves the raw block of
\* every entry but the one with the given timestamp unchanged, in the same
\* relative order.
C6_OnlyTargetChanges ==
  nbCmd.op \in {"delete", "update"} /\ nbCmd.status = "ok" =>
    OtherPieces(nbWritten, nbCmd.ts) = OtherPieces(nbPrev, nbCmd.ts)

\* an entry between two others with the same heading is deleted or updated
C6_Witness ==
  /\ nbCmd.op \in {"delete", "update"}
  /\ nbCmd.status = "ok"
  /\ nbWritten # nbPrev
  /\ \E i, j \in 1..Len(Pieces(nbPrev)) :
       /\ i < j
       /\ Carries(Pieces(nbPrev)[i], nbCmd.ts)
       /\ Pieces(nbPrev)[j] # <<>>
       /\ Pieces(nbPrev)[j][1] = Pieces(nbPrev)[i][1]

WordAndFields(words) == [i \in 1..Len(words) |-> [word |-> words[i].word, fields |-> words[i].fields]]

\* C7: after appends only to an initially empty notebook, listing it returns
\* the appended entries (heading and structured fields), in the order the
\* appends completed.
C7_AppendsReadBack ==
  nbPlain /\ nbRead.fresh => WordAndFields(nbRead.words) = nbLog

\* two different entries appended and listed
C7_Witness ==
  /\ nbPlain
  /\ nbRead.fresh
  /\ Len(nbLog) >= 2
  /\ nbLog[1].word # nbLog[2].word
  /\ nbLog[1].fields # nbLog[2].fields


\* ------------------------------------------------------------------------
\* Git sync between two machines (pull_and_resolve, push)
\* ------------------------------------------------------------------------
Machines == {"work", "home"}

\* an entry: its timestamp identifies it; it is created by one save on one machine
SyncEntry(m, n) == [timestamp |-> <<m, n>>, word |-> <<"a">>]

Range(seq) == {seq[i] : i \in 1..Len(seq)}
HasTimestamp(seq, ts) == \E i \in 1..Len(seq) : seq[i].timestamp = ts

\* union-of-entries: local sections are kept, remote-only sections are added,
\* sections with an identical timestamp are kept once
UnionMergeWrong(local, remote) == remote
UnionMerge(local, remote) ==
  local \o SelectSeq(remote, LAMBDA e : ~HasTimestamp(local, e.timestamp))

SyncIdle ==
  /\ mLocal = [m \in Machines |-> <<>>]
  /\ mRemote = <<>>
  /\ mFetched = [m \in Machines |-> <<>>]
  /\ mPre = [m \in Machines |-> [local |-> <<>>, remote |-> <<>>]]
  /\ mpc = [m \in Machines |-> "idle"]
  /\ mSaved = {}
  /\ nentries = 0

SyncInit == SyncIdle

\* a save on machine m appends a new entry to its notebook
MachineSave(m) ==
  /\ mpc[m] = "idle"
  /\ nentries < MaxEntries
  /\ mLocal' = [mLocal EXCEPT ![m] = Append(@, SyncEntry(m, nentries + 1))]
  /\ mSaved' = mSaved \cup {SyncEntry(m, nentries + 1)}
  /\ nentries' = nentries + 1
  /\ UNCHANGED <<mRemote, mFetched, mPre, mpc>>

\* pull_and_resolve on machine m: fetch, union-merge, re-commit; or a failure
\* (a warning) that leaves the notebook as it is
PullAndResolve(m) ==
  /\ mpc[m] = "idle"
  /\ \/ /\ mFetched' = [mFetched EXCEPT ![m] = mRemote]
        /\ mPre' = [mPre EXCEPT ![m] = [local |-> mLocal[m], remote |-> mRemote]]
        /\ mLocal' = [mLocal EXCEPT ![m] = UnionMerge(@, mRemote)]
        /\ mpc' = [mpc EXCEPT ![m] = "push"]
     \/ UNCHANGED <<mFetched, mPre, mLocal, mpc>>
  /\ UNCHANGED <<mRemote, mSaved, nentries>>

\* push on machine m: accepted when the remote head is the one fetched,
\* rejected (a warning) when the other machine pushed meanwhile, or failing
Push(m) ==
  /\ mpc[m] = "push"
  /\ mpc' = [mpc EXCEPT ![m] = "idle"]
  /\ \/ /\ mRemote = mFetched[m]
        /\ mRemote' = mLocal[m]
     \/ UNCHANGED mRemote
  /\ UNCHANGED <<mLocal, mFetched, mPre, mSaved, nentries>>

SyncNext ==
  /\ UNCHANGED <<parseVars, cliVars, hookVars, storeVars, composeVars, laterVars>>
  /\ \E m \in Machines :
       \/ MachineSave(m)
       \/ PullAndResolve(m)
       \/ Push(m)

\* ------------------------------------------------------------------------
\* Claims about the Git sync
\* ------------------------------------------------------------------------
\* how many sections of a notebook carry the timestamp
Count(seq, ts) == Cardinality({i \in 1..Len(seq) : seq[i].timestamp = ts})

\* C3: right after pull_and_resolve the merged notebook holds every entry the
\* local or the remote notebook held before it, each timestamp once; and no
\* entry saved on a machine ever leaves that machine's notebook, however the
\* saves and syncs of the two machines interleave.
C3_UnionMergeKeepsAll ==
  /\ \A m \in Machines :
       mpc[m] = "push" =>
         /\ Range(mPre[m].local) \cup Range(mPre[m].remote) = Range(mLocal[m])
         /\ \A e \in Range(mLocal[m]) : Count(mLocal[m], e.timestamp) = 1
  /\ \A e \in mSaved : e \in Range(mLocal[e.timestamp[1]])

\* a sync of diverged notebooks: a shared entry, a local-only and a remote-only one
C3_Witness ==
  \E m \in Machines :
    /\ mpc[m] = "push"
    /\ Range(mPre[m].local) \cap Range(mPre[m].remote) # {}
    /\ Range(mPre[m].local) \ Range(mPre[m].remote) # {}
    /\ Range(mPre[m].remote) \ Range(mPre[m].local) # {}


\* ------------------------------------------------------------------------
\* Compose view: getRandomWords and generateSentence
\* ------------------------------------------------------------------------
Plus == <<" ", "+", " ">>

\* headings of saved entries: words, a composed sentence, a word with a plus sign
DefTexts == {<<"a">>, <<"b">>, <<"a", " ", "+", " ", "b">>, <<"a", "+", "b">>}
DefLists == UNION {[1..n -> DefTexts] : n \in 0..MaxDefs}

\* savedMdDefinitions.filter(def => !def.text.includes(" + ")).map(def => def.text)
SingleWordsWrong(defs) == defs
SingleWords(defs) == SelectSeq(defs, LAMBDA t : ~Includes(t, Plus))

\* getRandomWords(words, 2) for words.length >= 2: the first two elements of
\* a shuffled copy, that is the elements at two different positions
RandomPairsWrong(words) ==
  {<<words[p[1]], words[p[2]]>> : p \in (1..Len(words)) \X (1..Len(words))}
RandomPairs(words) ==
  {<<words[p[1]], words[p[2]]>> :
     p \in {q \in (1..Len(words)) \X (1..Len(words)) : q[1] # q[2]}}

NoWords == [word1 |-> <<>>, word2 |-> <<>>, set |-> FALSE]
NoCall == [pc |-> "none", word1 |-> <<>>, word2 |-> <<>>, random |-> FALSE]

ComposeIdle ==
  /\ cDefs = <<>>
  /\ cLoading = TRUE
  /\ cView = [composedSentence |-> FALSE, isGenerating |-> FALSE, error |-> FALSE,
              currentWords |-> NoWords]
  /\ cCall = NoCall
  /\ ncompose = 0

ComposeInit ==
  /\ cDefs \in DefLists
  /\ cLoading = TRUE
  /\ cView = [composedSentence |-> FALSE, isGenerating |-> FALSE, error |-> FALSE,
              currentWords |-> NoWords]
  /\ cCall = NoCall
  /\ ncompose = 0

\* useSavedMdDefinitions finishes loading
DefsLoaded ==
  /\ cLoading
  /\ cLoading' = FALSE
  /\ UNCHANGED <<cDefs, cView, cCall, ncompose>>

\* generateSentence(useExistingWords) up to `await showToast`
generateSentence(useExistingWords) ==
  /\ ncompose < MaxCompose
  /\ ncompose' = ncompose + 1
  /\ IF Len(SingleWords(cDefs)) < 2
       THEN /\ cView' = [cView EXCEPT !.error = TRUE]
            /\ UNCHANGED cCall
       ELSE IF useExistingWords /\ cView.currentWords.set
         THEN /\ cView' = [cView EXCEPT !.isGenerating = TRUE, !.error = FALSE,
                                        !.composedSentence = FALSE]
              /\ cCall' = [pc |-> "toast", word1 |-> cView.currentWords.word1,
                           word2 |-> cView.currentWords.word2, random |-> FALSE]
         ELSE \E pair \in RandomPairs(SingleWords(cDefs)) :
                /\ cView' = [cView EXCEPT !.isGenerating = TRUE, !.error = FALSE,
                                          !.composedSentence = FALSE,
                                          !.currentWords = [word1 |-> pair[1],
                                                            word2 |-> pair[2],
                                                            set |-> TRUE]]
                /\ cCall' = [pc |-> "toast", word1 |-> pair[1], word2 |-> pair[2],
                             random |-> TRUE]
  /\ UNCHANGED <<cDefs, cLoading>>

\* the auto-generate effect
AutoGenerate ==
  /\ ~cLoading
  /\ Len(SingleWords(cDefs)) >= 2
  /\ ~cView.composedSentence
  /\ ~cView.isGenerating
  /\ ~cView.error
  /\ generateSentence(FALSE)

\* "Try Again" on the error view, "Generate with New Words" on the result
GenerateNew ==
  /\ ~cLoading
  /\ Len(SingleWords(cDefs)) >= 2
  /\ ~cView.isGenerating
  /\ cView.error \/ cView.composedSentence
  /\ generateSentence(FALSE)

\* "Regenerate Sentence" on the result
Regenerate ==
  /\ ~cLoading
  /\ Len(SingleWords(cDefs)) >= 2
  /\ ~cView.isGenerating
  /\ ~cView.error
  /\ cView.composedSentence
  /\ generateSentence(TRUE)

\* showToast resolves and executeWordCli(["compose", word1, word2]) starts,
\* or showToast rejects: catch, finally
ComposeToast ==
  /\ cCall.pc = "toast"
  /\ \/ /\ cCall' = [cCall EXCEPT !.pc = "cli"]
        /\ UNCHANGED cView
     \/ /\ cCall' = NoCall
        /\ cView' = [cView EXCEPT !.error = TRUE, !.isGenerating = FALSE]
  /\ UNCHANGED <<cDefs, cLoading, ncompose>>

\* the CLI call settles: a parsed sentence, an unparsable output or an error
ComposeDone ==
  /\ cCall.pc = "cli"
  /\ cCall' = NoCall
  /\ \/ cView' = [cView EXCEPT !.composedSentence = TRUE, !.isGenerating = FALSE]
     \/ cView' = [cView EXCEPT !.error = TRUE, !.isGenerating = FALSE]
  /\ UNCHANGED <<cDefs, cLoading, ncompose>>

ComposeNext ==
  /\ UNCHANGED <<parseVars, cliVars, hookVars, storeVars, syncVars, laterVars>>
  /\ \/ DefsLoaded
     \/ AutoGenerate
     \/ GenerateNew
     \/ Regenerate
     \/ ComposeToast
     \/ ComposeDone

\* ------------------------------------------------------------------------
\* Claims about the compose view
\* ------------------------------------------------------------------------
\* C10: the two words of a compose call whose words were picked at random
\* are the headings of two different saved entries, and neither contains
\* " + ".
C10_RandomWordsDistinctSingle ==
  cCall.pc # "none" /\ cCall.random =>
    /\ \E i, j \in 1..Len(cDefs) :
         i # j /\ cDefs[i] = cCall.word1 /\ cDefs[j] = cCall.word2
    /\ ~Includes(cCall.word1, Plus)
    /\ ~Includes(cCall.word2, Plus)

\* a random pick among two single words and a composed sentence, handed to the CLI
C10_Witness ==
  /\ cCall.pc = "cli"
  /\ cCall.random
  /\ \E i \in 1..Len(cDefs) : Includes(cDefs[i], Plus)
  /\ Len(SingleWords(cDefs)) = 2
  /\ ncompose = 2

\* what ComposeWordsView returns for the rendered state
ComposeScreen ==
  IF cLoading THEN "loading"
  ELSE IF Len(SingleWords(cDefs)) < 2 THEN "guidance"
  ELSE IF cView.isGenerating THEN "generating"
  ELSE IF cView.error THEN "error"
  ELSE IF cView.composedSentence THEN "sentence"
  ELSE "loading"

\* C31: while fewer than two saved entries without " + " in their heading
\* exist, the compose view never invokes the CLI `compose` command: no
\* generateSentence call is made and no subprocess is started, and once the
\* definitions are loaded the guidance screen is shown.
C31_NoComposeBelowTwoWords ==
  Cardinality({i \in 1..Len(cDefs) : ~Includes(cDefs[i], Plus)}) < 2 =>
    /\ cCall = NoCall
    /\ ncompose = 0
    /\ ~cLoading => ComposeScreen = "guidance"

\* loaded definitions holding two entries, one of them a composed sentence
C31_Witness ==
  /\ ~cLoading
  /\ Len(cDefs) >= 2
  /\ Cardinality({i \in 1..Len(cDefs) : ~Includes(cDefs[i], Plus)}) = 1
  /\ ComposeScreen = "guidance"


\* ------------------------------------------------------------------------
\* Claims about ensureCLI
\* ------------------------------------------------------------------------
\* the digest a file at the install path must have on this platform
PinnedHash == getDownloadUrl(platform, arch).expectedHash

\* C1: a call whose downloaded file's digest differs from the pinned hash
\* fails with the verification error and writes nothing to the install path,
\* no call creates a file there whose digest differs from the pinned hash,
\* and no call overwrites a CLI that is already at the install path.
C1_VerifiedInstallOnly ==
  /\ \A c \in Callers : emis[c] => eres[c] = "hash-mismatch" /\ ewrote[c] = "no"
  /\ \A c \in Callers : ewrote[c] # "no" => Sha256(cliFile) = PinnedHash
  /\ \A c \in Callers : ewrote[c] # "overwrote"


\* ------------------------------------------------------------------------
\* Parser inputs
\* ------------------------------------------------------------------------
AllTexts == UNION {[1..n -> Alphabet] : n \in 0..MaxTextLen}

SampleLines ==
  { <<"*", "/", "a", "/", "*">>,
    <<">", " ", "a", " ", "b">>,
    <<"*", "*", "Z", "*", "*">>,
    <<"-", " ", "a">>,
    <<"-", " ", "b">>,
    <<"-", " ", "Z", "a">>,
    <<"-", " ", "Z">>,
    <<"*", "a", "*">>,
    <<" ", "*", "/", "*", " ">>,
    <<"-", "-", "-">> }

SampleBlocks ==
  UNION {{JoinLines(ls) : ls \in [1..n -> SampleLines]} : n \in 2..MaxLines}

ParseInit ==
  /\ output \in AllTexts \cup SampleBlocks
  /\ parsed = NULL
  /\ rewritten = <<>>
  /\ reparsed = NULL
  /\ ppc = "input"

Parse ==
  /\ ppc = "input"
  /\ parsed' = parseRawWordExplanation(output)
  /\ ppc' = "parsed"
  /\ UNCHANGED <<output, rewritten, reparsed, cliVars, hookVars, storeVars, syncVars,
                                   composeVars, laterVars>>

Rewrite ==
  /\ ppc = "parsed"
  /\ \E omit \in BOOLEAN : rewritten' = Serialize(parsed, omit)
  /\ ppc' = "rewritten"
  /\ UNCHANGED <<output, parsed, reparsed, cliVars, hookVars, storeVars, syncVars,
                                   composeVars, laterVars>>

Reparse ==
  /\ ppc = "rewritten"
  /\ reparsed' = parseRawWordExplanation(rewritten)
  /\ ppc' = "done"
  /\ UNCHANGED <<output, parsed, rewritten, cliVars, hookVars, storeVars, syncVars,
                                   composeVars, laterVars>>

ParseNext == Parse \/ Rewrite \/ Reparse


\* ------------------------------------------------------------------------
\* Claims about the parser
\* ------------------------------------------------------------------------
\* the trimmed, non-empty lines of the parsed text
InLines == TrimmedLines(output)

\* l is pre, some content, suf
HasForm(l, pre, suf) == Len(l) >= Len(pre) + Len(suf) /\ StartsWith(l, pre) /\ EndsWith(l, suf)

PronForm(l) == HasForm(l, <<"*", "/">>, <<"/", "*">>)
DoubleStarForm(l) == HasForm(l, <<"*", "*">>, <<"*", "*">>)
SingleStarForm(l) == HasForm(l, <<"*">>, <<"*">>) /\ ~PronForm(l) /\ ~DoubleStarForm(l)
DefForm(l) == HasForm(l, <<">", " ">>, <<>>)
BulletForm(l) == HasForm(l, <<"-", " ">>, <<>>)
EnglishBullet(l) == BulletForm(l) /\ \A i \in 3..Len(l) : l[i] # "Z"
ChineseBullet(l) == BulletForm(l) /\ \E i \in 3..Len(l) : l[i] = "Z"

\* value is the content of some line of the given form, or empty when no line has it
FieldFromLine(value, Form(_), pre, suf) ==
  IF \E i \in 1..Len(InLines) : Form(InLines[i])
    THEN \E i \in 1..Len(InLines) : Form(InLines[i]) /\ InLines[i] = pre \o value \o suf
    ELSE value = <<>>

\* value is the content of the first line of the given form, or empty when no line has it
FieldFromFirstLine(value, Form(_), pre) ==
  IF \E i \in 1..Len(InLines) : Form(InLines[i])
    THEN LET k == CHOOSE i \in 1..Len(InLines) :
                    Form(InLines[i]) /\ \A j \in 1..(i - 1) : ~Form(InLines[j])
         IN InLines[k] = pre \o value
    ELSE value = <<>>

\* C8: every parse succeeds; pronunciation is the content of a */.../* line,
\* definition the text after "> ", chinese the content of a **...** line,
\* example_en the first "- " line without Chinese characters, example_zh the
\* first "- " line with Chinese characters, tip the content of a single-star
\* *...* line that is not of the pronunciation form; a field without a
\* matching line is the empty string.
C8_ParserFields ==
  ppc # "input" =>
    /\ parsed.ok
    /\ FieldFromLine(parsed.pronunciation, PronForm, <<"*", "/">>, <<"/", "*">>)
    /\ FieldFromLine(parsed.definition, DefForm, <<">", " ">>, <<>>)
    /\ FieldFromLine(parsed.chinese, DoubleStarForm, <<"*", "*">>, <<"*", "*">>)
    /\ FieldFromFirstLine(parsed.example_en, EnglishBullet, <<"-", " ">>)
    /\ FieldFromFirstLine(parsed.example_zh, ChineseBullet, <<"-", " ">>)
    /\ FieldFromLine(parsed.tip, SingleStarForm, <<"*">>, <<"*">>)

\* a parsed block with a tip line and two English bullets, the first one kept
C8_Witness ==
  /\ ppc = "parsed"
  /\ parsed.tip # <<>>
  /\ parsed.example_en = <<"a">>
  /\ \E i, j \in 1..Len(InLines) :
       i < j /\ InLines[i] = <<"-", " ", "a">> /\ InLines[j] = <<"-", " ", "b">>

\* C9: parsing a block, writing the fields back in the output grammar and
\* parsing that again gives the same six fields as the first parse.
C9_RoundTrip == ppc = "done" => reparsed = parsed

\* a round trip of a block that has a definition, an example and a tip
C9_Witness ==
  /\ ppc = "done"
  /\ parsed.definition # <<>>
  /\ parsed.example_zh # <<>>
  /\ parsed.tip # <<>>
  /\ reparsed.tip = parsed.tip

\* ------------------------------------------------------------------------
\* Word service: one call of getWordExplanation / saveWordToVocabulary /
\* deleteWordFromVocabulary / updateWordInVocabulary and its subprocess.
\* Three variants of the service exist in the sources:
\*   "execSync": wordService.ts 77-311, execSync with timeout 30000
\*   "spawn":    wordService.ts 438-687, spawn with close / error handlers
\*   "legacy":   useWordFiltering.ts 127-239, spawn, output markers, 30 s timer
\* ------------------------------------------------------------------------
SvcVariants == {"execSync", "spawn", "legacy"}
SvcOps == {"query", "save", "delete", "update"}

\* the functions each variant defines
SvcCalls ==
  {c \in SvcVariants \X SvcOps : c[1] = "legacy" => c[2] \in {"query", "save"}}

\* how a call runs its subprocess: "sync" = execSync with a timeout (every
\* query, and every call of the execSync variant), "timed" = spawn plus the
\* 30 s setTimeout of the legacy save, "spawn" = spawn with no timer
SvcMode(variant, op) ==
  IF op = "query" \/ variant = "execSync" THEN "sync"
  ELSE IF variant = "legacy" THEN "timed"
  ELSE "spawn"

NoSvc ==
  [variant |-> "none", op |-> "none", pc |-> "idle", proc |-> "none",
   marker |-> FALSE, timer |-> "none", result |-> "none"]

SvcIdle ==
  /\ svc = NoSvc
  /\ nsvc = 0

SvcInit == SvcIdle

\* a promise settles once: later resolve calls are ignored
Resolve(current, value) == IF current = "pending" THEN value ELSE current

\* the call starts; getPreferences / getExecutablePath(Async) may throw, which
\* the outer catch turns into resolve(false) (a null for the query)
SvcStart(variant, op) ==
  /\ svc.result # "pending"
  /\ nsvc < MaxSvc
  /\ nsvc' = nsvc + 1
  /\ \E thrown \in BOOLEAN :
       svc' = IF thrown
              THEN [variant |-> variant, op |-> op, pc |-> "done", proc |-> "none",
                    marker |-> FALSE, timer |-> "none", result |-> "false"]
              ELSE [variant |-> variant, op |-> op, pc |-> "child",
                    proc |-> "running", marker |-> FALSE,
                    timer |-> IF SvcMode(variant, op) = "spawn" THEN "none"
                              ELSE "armed",
                    result |-> "pending"]

\* the subprocess exits by itself; `marker`: its output held one of the texts
\* the legacy save looks for
ChildExit ==
  /\ svc.proc = "running"
  /\ \E code \in {"exit0", "exit1"}, marker \in BOOLEAN :
       svc' = [svc EXCEPT !.proc = code, !.marker = marker]
  /\ UNCHANGED nsvc

\* the executable cannot be started
ChildSpawnError ==
  /\ svc.proc = "running"
  /\ svc' = [svc EXCEPT !.proc = "spawnerr"]
  /\ UNCHANGED nsvc

\* execSync's timeout kills the subprocess
ExecSyncTimeout ==
  /\ SvcMode(svc.variant, svc.op) = "sync"
  /\ svc.pc = "child"
  /\ svc.proc = "running"
  /\ svc.timer = "armed"
  /\ svc' = [svc EXCEPT !.proc = "killed", !.timer = "fired"]
  /\ UNCHANGED nsvc

\* execSync returns the output on exit code 0 and throws otherwise
ExecSyncReturn ==
  /\ SvcMode(svc.variant, svc.op) = "sync"
  /\ svc.pc = "child"
  /\ svc.proc \in {"exit0", "exit1", "killed", "spawnerr"}
  /\ svc' = [svc EXCEPT !.pc = "done",
                        !.result = IF svc.proc = "exit0" THEN "true" ELSE "false"]
  /\ UNCHANGED nsvc

\* child.on("close"): the spawn variant resolves code === 0, the legacy save
\* computes `success` and schedules the resolve 500 ms later
OnClose ==
  /\ SvcMode(svc.variant, svc.op) \in {"spawn", "timed"}
  /\ svc.pc = "child"
  /\ svc.proc \in {"exit0", "exit1", "killed"}
  /\ svc' = IF SvcMode(svc.variant, svc.op) = "spawn"
            THEN [svc EXCEPT !.pc = "done",
                             !.result = Resolve(svc.result,
                                 IF svc.proc = "exit0" THEN "true" ELSE "false")]
            ELSE [svc EXCEPT !.pc = "closing"]
  /\ UNCHANGED nsvc

\* child.on("error")
OnError ==
  /\ SvcMode(svc.variant, svc.op) \in {"spawn", "timed"}
  /\ svc.pc = "child"
  /\ svc.proc = "spawnerr"
  /\ svc' = [svc EXCEPT !.pc = "done", !.result = Resolve(svc.result, "false")]
  /\ UNCHANGED nsvc

\* the legacy save's setTimeout(..., 500) callback
DelayedResolve ==
  /\ svc.pc = "closing"
  /\ svc' = [svc EXCEPT !.pc = "done",
                        !.result = Resolve(svc.result,
                            IF svc.proc = "exit0" /\ svc.marker THEN "true"
                            ELSE "false")]
  /\ UNCHANGED nsvc

\* the legacy save's setTimeout(..., 30000) callback: child.kill(), resolve(false)
TimerFire ==
  /\ SvcMode(svc.variant, svc.op) = "timed"
  /\ svc.timer = "armed"
  /\ svc.pc \in {"child", "closing"}
  /\ svc' = [svc EXCEPT !.timer = "fired",
                        !.proc = IF svc.proc = "running" THEN "killed" ELSE svc.proc,
                        !.result = Resolve(svc.result, "false")]
  /\ UNCHANGED nsvc

SvcHandlers ==
  ExecSyncTimeout \/ ExecSyncReturn \/ OnClose \/ OnError \/ DelayedResolve \/ TimerFire

SvcNext ==
  /\ UNCHANGED <<coreVars, readVars, procVars, extraVars>>
  /\ \/ \E c \in SvcCalls : SvcStart(c[1], c[2])
     \/ ChildExit
     \/ ChildSpawnError
     \/ SvcHandlers

\* the platform / architecture pairs the release is said to cover, each with
\* its own asset
SupportedPairs ==
  {<<"darwin", "arm64">>, <<"darwin", "x64">>, <<"linux", "x64">>, <<"linux", "arm64">>}

\* a call that went past getDownloadUrl and is downloading or installing
Downloading(c) == epc[c] \notin {"idle", "call", "done"} \/ edl[c] # "none"

\* C20: the asset is chosen for exactly the pairs (macOS, arm64), (macOS, x64),
\* (Linux, x64) and (Linux, arm64), with its own pinned hash; for every other
\* pair the call fails as unsupported before any download is attempted.
C20_SupportedPlatforms ==
  \A c \in Callers :
    /\ eres[c] = "unsupported" => <<platform, arch>> \notin SupportedPairs
    /\ Downloading(c) =>
         /\ <<platform, arch>> \in SupportedPairs
         /\ getDownloadUrl(platform, arch).expectedHash
              = Hashes[getDownloadUrl(platform, arch).assetName]

\* its first half alone: no listed pair is rejected as unsupported
C20_ListedPairsServed ==
  \A c \in Callers : eres[c] = "unsupported" => <<platform, arch>> \notin SupportedPairs

\* the part of it that holds: platforms other than macOS and Linux, and Linux
\* on an architecture other than x64, fail before any download
C20_UnsupportedFailEarly ==
  \A c \in Callers :
    (platform \notin {"darwin", "linux"} \/ (platform = "linux" /\ arch # "x64"))
      => ~Downloading(c)

\* ------------------------------------------------------------------------
\* Claims about the hook's save, delete and update handlers
\* ------------------------------------------------------------------------
\* the CLI subprocesses of one kind that are running
CliRunning(kind) == {t \in tasks : t.kind = kind /\ t.pc = "cli"}

\* C14: the Update and Delete actions on a saved entry invoke the CLI with
\* the timestamp of the entry the action was taken on.
C14_OwnTimestampPassed ==
  \A t \in CliRunning("delete") \cup CliRunning("update") : t.timestamp = t.selected

\* the same statement for the Delete action alone
C14_DeletePassesTimestamp ==
  \A t \in CliRunning("delete") : t.timestamp = t.selected

\* C16: at most one save CLI invocation is in flight at any time, for every
\* interleaving of save actions, awaits and re-renders.
C16_OneSaveInFlight == Cardinality(CliRunning("save")) <= 1

\* C15: no operation of the extension writes the notebook itself: its
\* content changes only in the step in which a save, delete or update CLI
\* subprocess finishes; mounting, rendering, searching, querying and listing
\* (loadSavedWords) leave it unchanged.
C15_OnlyCliWritesNotebook ==
  [][disk' # disk =>
       \E t \in tasks : /\ t.kind \in {"save", "delete", "update"}
                        /\ t.pc = "cli"
                        /\ t \notin tasks']_vars

\* a notebook that was listed at launch, changed by a CLI save and by a CLI
\* delete, and listed again
C15_Witness ==
  /\ tasks = {}
  /\ hst.savedWords = disk
  /\ Len(disk) = 2
  /\ \E i, j \in 1..Len(disk) : disk[i].timestamp > MaxOps /\ disk[j].timestamp <= MaxOps

\* ------------------------------------------------------------------------
\* Word service claims
\* ------------------------------------------------------------------------
SvcSettled == svc.pc = "done" /\ svc.result \in {"true", "false"}

\* C11: saveWordToVocabulary, deleteWordFromVocabulary and
\* updateWordInVocabulary resolve to true if and only if the CLI subprocess
\* exited with code 0; a non-zero exit, a spawn error or an exception resolves
\* to false (the promise has no reject path in any variant).
C11_ExitCodeDecides ==
  (svc.op \in {"save", "delete", "update"} /\ SvcSettled)
    => (svc.result = "true" <=> svc.proc = "exit0")

\* the same statement for the two variants of services/wordService.ts only
C11_WordServiceVariants ==
  (svc.variant \in {"execSync", "spawn"} /\ svc.op \in {"save", "delete", "update"}
     /\ SvcSettled)
    => (svc.result = "true" <=> svc.proc = "exit0")

\* C19: every CLI subprocess call is bounded by a timeout: a call whose
\* subprocess never completes is ended and reported as failed, so every call
\* eventually returns to its caller.
C19_CallsReturn == (svc.result = "pending") ~> (svc.result # "pending")

\* the same statement for the calls that do carry a timeout
C19_TimedCallsReturn ==
  (svc.result = "pending" /\ SvcMode(svc.variant, svc.op) # "spawn")
     ~> (svc.result # "pending")

\* ------------------------------------------------------------------------
\* Listing the notebook file: parseSavedWords(vocabularyPath) as a whole,
\* with the file absent, unreadable or present (wordService.ts 314-360)
\* ------------------------------------------------------------------------
\* sections a notebook may hold: entries stamped with the timestamp comment
\* (on the line after the heading, or below the fields), an entry with a
\* `Timestamp: ` line, and an entry with no timestamp at all
RdBlocks ==
  { FormatEntry(<<"a">>, "t1", WordContent),
    FormatEntry(<<"a">>, "t2", ExamplesContent),
    <<HeadingMark \o <<"b">>>> \o WordContent \o <<TimestampLine("t3")>>,
    <<HeadingMark \o <<"b">>, TimestampMark \o <<"t4">>>> \o WordContent,
    <<HeadingMark \o <<"b">>>> \o ExamplesContent }

\* every notebook text of at most n sections
RECURSIVE RdTexts(_)
RdTexts(n) ==
  IF n = 0 THEN {<<>>}
  ELSE RdTexts(n - 1) \cup {append(f, b) : f \in RdTexts(n - 1), b \in RdBlocks}

RdFiles ==
  {[state |-> "missing", text |-> <<>>], [state |-> "unreadable", text |-> <<>>]}
    \cup {[state |-> "present", text |-> t] : t \in RdTexts(MaxSections)}

NoListing == [called |-> FALSE, threw |-> FALSE, words |-> <<>>]

\* the catch block of parseSavedWords: console.error, return []
ReadCaughtWrong == [called |-> TRUE, threw |-> TRUE, words |-> <<>>]

ReadCaught == [called |-> TRUE, threw |-> FALSE, words |-> <<>>]

\* parseSavedWords(vocabularyPath): existsSync false returns [], a throwing
\* readFileSync lands in the catch block, otherwise the content is parsed
parseSavedWordsAt(file) ==
  IF file.state = "missing" THEN [called |-> TRUE, threw |-> FALSE, words |-> <<>>]
  ELSE IF file.state = "unreadable" THEN ReadCaught
  ELSE [called |-> TRUE, threw |-> FALSE, words |-> parseSavedWords(file.text)]

ReadIdle ==
  /\ rdFile = [state |-> "missing", text |-> <<>>]
  /\ rdOut = NoListing

ReadInit ==
  /\ rdFile \in RdFiles
  /\ rdOut = NoListing

\* one listing of the notebook
ReadList ==
  /\ ~rdOut.called
  /\ rdOut' = parseSavedWordsAt(rdFile)
  /\ UNCHANGED rdFile

\* the user looks at another notebook state
ReadReset ==
  /\ rdOut.called
  /\ rdOut' = NoListing
  /\ rdFile' \in RdFiles

ReadNext ==
  /\ UNCHANGED <<coreVars, svcVars, procVars, extraVars>>
  /\ (ReadList \/ ReadReset)

\* the sections of a text that yield an entry, in file order
KeptSections(content) ==
  SelectSeq(SplitSections(SplitLines(content), 1, <<>>), LAMBDA sec : SectionWord(sec) # <<>>)

\* the values V of the `<!-- timestamp=V -->` comments in a section
CommentTimestamps(sec) ==
  {sec[i][2] : i \in {k \in 1..Len(sec) : Len(sec[k]) = 3 /\ sec[k][1] = "<!-- timestamp="
                                              /\ sec[k][3] = " -->"}}

\* C12: when the notebook file does not exist, or reading it fails, the
\* listing is the empty list and no exception reaches the caller.
C12_MissingFileEmptyList ==
  (rdOut.called /\ rdFile.state \in {"missing", "unreadable"})
    => (rdOut.words = <<>> /\ ~rdOut.threw)

\* a listing of a file that cannot be read
C12_Witness ==
  /\ rdOut.called
  /\ rdFile.state = "unreadable"
  /\ rdOut.words = <<>>

\* C13: for every section that contains a comment `<!-- timestamp=V -->`,
\* the entry the listing returns for that section has timestamp V.
C13_CommentTimestampRead ==
  (rdOut.called /\ rdFile.state = "present") =>
    /\ Len(rdOut.words) = Len(KeptSections(rdFile.text))
    /\ \A i \in 1..Len(rdOut.words) :
         \A v \in CommentTimestamps(KeptSections(rdFile.text)[i]) :
           rdOut.words[i].timestamp = <<v>>

\* the listing does return the value of a `Timestamp: ` line
C13_TimestampLineRead ==
  (rdOut.called /\ rdFile.state = "present") =>
    \A i \in 1..Len(rdOut.words) :
      LET sec == KeptSections(rdFile.text)[i]
      IN  (Len(sec) >= 2 /\ StartsWith(sec[2], TimestampMark))
            => rdOut.words[i].timestamp = StripPrefix(sec[2], TimestampMark)

\* ------------------------------------------------------------------------
\* Word processor of the CLI: the interactive loop
\*   Idle -> Classifying -> Querying -> Presenting
\*        -> {Saving | Skipped | Regenerating | Previewing} -> Idle
\* the delete / update commands, and the Git manager's commit_all and push.
\* The notebook is the sequence of the results written to it (a result is
\* named by the number of the query that produced it).
\* ------------------------------------------------------------------------
WpReadOnlyStates ==
  {"Classifying", "Querying", "Presenting", "Previewing", "Regenerating", "Skipped"}
WpWriteStates == {"Saving", "Deleting", "Updating"}

\* files around the notebook: the notebook and a second file inside the
\* vocabulary directory {base}/word4you/, and a file of the surrounding
\* directory outside it
NotebookPath == "word4you/vocabulary_notebook.md"
WpPaths == {NotebookPath, "word4you/notes.md", "projects/todo.md"}
InVocabularyDir(path) == path \in {NotebookPath, "word4you/notes.md"}

NoGit == [repo |-> FALSE, staged |-> {}, commits |-> <<>>, pushed |-> 0]

ProcIdle ==
  /\ wpState = "Idle"
  /\ wpStep = "none"
  /\ wpResult = 0
  /\ wpShown = 0
  /\ wpQueries = 0
  /\ wpNotebook = <<>>
  /\ wpDirty = {}
  /\ wpGitOn = FALSE
  /\ wpOuterRepo = FALSE
  /\ wpGit = NoGit
  /\ wpMsg = "none"
  /\ nwp = 0

\* the CLI starts: Git sync on or off, the surrounding directory under Git
\* or not, other files possibly modified already
ProcInit ==
  /\ wpState = "Idle"
  /\ wpStep = "none"
  /\ wpResult = 0
  /\ wpShown = 0
  /\ wpQueries = 0
  /\ wpNotebook = <<>>
  /\ wpDirty \in {{}, {"projects/todo.md"}, {"word4you/notes.md", "projects/todo.md"}}
  /\ wpGitOn \in BOOLEAN
  /\ wpOuterRepo \in BOOLEAN
  /\ wpGit = NoGit
  /\ wpMsg = "none"
  /\ nwp = 0

\* Idle --input received--> Classifying; blank input is rejected with a message
WpInput ==
  /\ wpState = "Idle"
  /\ nwp < MaxInputs
  /\ nwp' = nwp + 1
  /\ \/ /\ wpMsg' = "please enter a word"
        /\ UNCHANGED wpState
     \/ /\ wpState' = "Classifying"
        /\ wpMsg' = "none"
  /\ UNCHANGED <<wpStep, wpResult, wpShown, wpQueries, wpNotebook, wpDirty, wpGitOn,
                 wpOuterRepo, wpGit>>

\* Classifying --done--> Querying
WpClassified ==
  /\ wpState = "Classifying"
  /\ wpState' = "Querying"
  /\ UNCHANGED <<wpStep, wpResult, wpShown, wpQueries, wpNotebook, wpDirty, wpGitOn,
                 wpOuterRepo, wpGit, wpMsg, nwp>>

\* Querying --success--> Presenting, Querying --failure--> Idle
WpQueried ==
  /\ wpState = "Querying"
  /\ \/ /\ wpState' = "Presenting"
        /\ wpQueries' = wpQueries + 1
        /\ wpResult' = wpQueries + 1
        /\ UNCHANGED wpMsg
     \/ /\ wpState' = "Idle"
        /\ wpResult' = 0
        /\ wpMsg' = "error"
        /\ UNCHANGED wpQueries
  /\ UNCHANGED <<wpStep, wpShown, wpNotebook, wpDirty, wpGitOn, wpOuterRepo, wpGit, nwp>>

\* Presenting --"p"--> Previewing: shows what would be written
WpPreviewWrong ==
  /\ wpState = "Presenting"
  /\ wpState' = "Previewing"
  /\ wpShown' = wpResult
  /\ wpNotebook' = Append(wpNotebook, wpResult)
  /\ UNCHANGED <<wpStep, wpResult, wpQueries, wpDirty, wpGitOn, wpOuterRepo, wpGit,
                 wpMsg, nwp>>

WpPreview ==
  /\ wpState = "Presenting"
  /\ wpState' = "Previewing"
  /\ wpShown' = wpResult
  /\ UNCHANGED <<wpStep, wpResult, wpQueries, wpNotebook, wpDirty, wpGitOn, wpOuterRepo,
                 wpGit, wpMsg, nwp>>

\* Previewing --> Presenting
WpPreviewed ==
  /\ wpState = "Previewing"
  /\ wpState' = "Presenting"
  /\ UNCHANGED <<wpStep, wpResult, wpShown, wpQueries, wpNotebook, wpDirty, wpGitOn,
                 wpOuterRepo, wpGit, wpMsg, nwp>>

\* Presenting --"r"--> Regenerating: the prior result is discarded
WpRegenerate ==
  /\ wpState = "Presenting"
  /\ wpQueries < MaxInputs
  /\ wpState' = "Regenerating"
  /\ wpResult' = 0
  /\ UNCHANGED <<wpStep, wpShown, wpQueries, wpNotebook, wpDirty, wpGitOn, wpOuterRepo,
                 wpGit, wpMsg, nwp>>

\* Regenerating re-invokes Classifying -> Querying for the same input
WpRegenerating ==
  /\ wpState = "Regenerating"
  /\ wpState' = "Classifying"
  /\ UNCHANGED <<wpStep, wpResult, wpShown, wpQueries, wpNotebook, wpDirty, wpGitOn,
                 wpOuterRepo, wpGit, wpMsg, nwp>>

\* Presenting --"k"--> Skipped
WpSkip ==
  /\ wpState = "Presenting"
  /\ wpState' = "Skipped"
  /\ UNCHANGED <<wpStep, wpResult, wpShown, wpQueries, wpNotebook, wpDirty, wpGitOn,
                 wpOuterRepo, wpGit, wpMsg, nwp>>

\* Skipped --> Idle: the result is discarded
WpSkipped ==
  /\ wpState = "Skipped"
  /\ wpState' = "Idle"
  /\ wpResult' = 0
  /\ wpMsg' = "skipped"
  /\ UNCHANGED <<wpStep, wpShown, wpQueries, wpNotebook, wpDirty, wpGitOn, wpOuterRepo,
                 wpGit, nwp>>

\* Presenting --"s"--> Saving
WpSave ==
  /\ wpState = "Presenting"
  /\ wpState' = "Saving"
  /\ wpStep' = "write"
  /\ UNCHANGED <<wpResult, wpShown, wpQueries, wpNotebook, wpDirty, wpGitOn, wpOuterRepo,
                 wpGit, wpMsg, nwp>>

\* the delete and update commands, on a notebook that holds an entry
WpCommand ==
  /\ wpState = "Idle"
  /\ nwp < MaxInputs
  /\ nwp' = nwp + 1
  /\ wpNotebook # <<>>
  /\ wpState' \in {"Deleting", "Updating"}
  /\ wpStep' = "write"
  /\ wpMsg' = "none"
  /\ UNCHANGED <<wpResult, wpShown, wpQueries, wpNotebook, wpDirty, wpGitOn, wpOuterRepo,
                 wpGit>>

\* the command is over
WpToIdle(msg) ==
  /\ wpState' = "Idle"
  /\ wpStep' = "none"
  /\ wpResult' = 0
  /\ wpMsg' = msg

\* the storage write of the running save / delete / update, or its I/O failure
WpWrite ==
  /\ wpState \in WpWriteStates
  /\ wpStep = "write"
  /\ \/ /\ WpToIdle("error")
        /\ UNCHANGED <<wpNotebook, wpDirty>>
     \/ /\ wpNotebook' =
             IF wpState = "Saving" THEN Append(wpNotebook, wpResult)
             ELSE IF wpState = "Deleting" THEN Tail(wpNotebook)
             ELSE [wpNotebook EXCEPT ![1] = 0]
        /\ wpDirty' = wpDirty \cup {NotebookPath}
        /\ IF wpGitOn
             THEN /\ wpStep' = "stage"
                  /\ UNCHANGED <<wpState, wpResult, wpMsg>>
             ELSE WpToIdle("saved locally")
  /\ UNCHANGED <<wpShown, wpQueries, wpGitOn, wpOuterRepo, wpGit, nwp>>

\* commit_all stages the changes within the vocabulary directory only
\* (the variant stages whatever the enclosing repository reports as changed)
StagedWrong(dirty) ==
  IF wpOuterRepo THEN dirty ELSE {f \in dirty : InVocabularyDir(f)}

Staged(dirty) == {f \in dirty : InVocabularyDir(f)}

\* ensure_repo, then commit_all's staging; a failure is a warning
WpStage ==
  /\ wpState \in WpWriteStates
  /\ wpStep = "stage"
  /\ \/ /\ WpToIdle("warning")
        /\ UNCHANGED wpGit
     \/ /\ wpGit' = [wpGit EXCEPT !.repo = TRUE, !.staged = Staged(wpDirty)]
        /\ wpStep' = "commit"
        /\ UNCHANGED <<wpState, wpResult, wpMsg>>
  /\ UNCHANGED <<wpShown, wpQueries, wpNotebook, wpDirty, wpGitOn, wpOuterRepo, nwp>>

\* commit_all's commit of what was staged
WpCommit ==
  /\ wpState \in WpWriteStates
  /\ wpStep = "commit"
  /\ wpGit' = [wpGit EXCEPT !.staged = {},
                            !.commits = Append(wpGit.commits, wpGit.staged)]
  /\ wpDirty' = wpDirty \ wpGit.staged
  /\ wpStep' = "push"
  /\ UNCHANGED <<wpState, wpResult, wpMsg, wpShown, wpQueries, wpNotebook, wpGitOn,
                 wpOuterRepo, nwp>>

\* push, or its failure (a warning)
WpPush ==
  /\ wpState \in WpWriteStates
  /\ wpStep = "push"
  /\ \/ /\ WpToIdle("warning")
        /\ UNCHANGED wpGit
     \/ /\ WpToIdle("pushed")
        /\ wpGit' = [wpGit EXCEPT !.pushed = Len(wpGit.commits)]
  /\ UNCHANGED <<wpShown, wpQueries, wpNotebook, wpDirty, wpGitOn, wpOuterRepo, nwp>>

\* the user edits another file while the CLI runs
WpTouch ==
  /\ \E f \in WpPaths \ {NotebookPath} :
       /\ f \notin wpDirty
       /\ wpDirty' = wpDirty \cup {f}
  /\ UNCHANGED <<wpState, wpStep, wpResult, wpShown, wpQueries, wpNotebook, wpGitOn,
                 wpOuterRepo, wpGit, wpMsg, nwp>>

ProcNext ==
  /\ UNCHANGED <<coreVars, svcVars, readVars, extraVars>>
  /\ \/ WpInput
     \/ WpClassified
     \/ WpQueried
     \/ WpPreview
     \/ WpPreviewed
     \/ WpRegenerate
     \/ WpRegenerating
     \/ WpSkip
     \/ WpSkipped
     \/ WpSave
     \/ WpCommand
     \/ WpWrite
     \/ WpStage
     \/ WpCommit
     \/ WpPush
     \/ WpTouch

\* C17: the notebook file and the Git repository are unchanged by every step
\* taken in Classifying, Querying, Presenting, Previewing, Regenerating and
\* Skipped; "p" returns to Presenting with the same result, "k" returns to
\* Idle; only the save, delete and update paths write.
C17_ReadOnlyStatesWriteNothing ==
  [][/\ wpState \in WpReadOnlyStates => (wpNotebook' = wpNotebook /\ wpGit' = wpGit)
     /\ (wpNotebook' # wpNotebook \/ wpGit' # wpGit) => wpState \in WpWriteStates
     /\ (wpState = "Previewing" /\ wpState' # wpState)
          => (wpState' = "Presenting" /\ wpResult' = wpResult /\ wpShown = wpResult)
     /\ (wpState = "Skipped" /\ wpState' # wpState) => wpState' = "Idle"]_vars

\* a result previewed and back in Presenting, in a session that saved before
C17_Witness ==
  /\ wpState = "Presenting"
  /\ wpResult # 0
  /\ wpShown = wpResult
  /\ wpNotebook # <<>>
  /\ wpResult \notin {wpNotebook[i] : i \in 1..Len(wpNotebook)}

\* C18: every file staged or committed by the Git manager lies inside the
\* vocabulary directory, also when the surrounding directory is under Git.
C18_CommitsInsideVocabularyDir ==
  /\ \A f \in wpGit.staged : InVocabularyDir(f)
  /\ \A i \in 1..Len(wpGit.commits) : \A f \in wpGit.commits[i] : InVocabularyDir(f)

\* a commit made while a file outside the directory was modified and the
\* surrounding directory is a repository
C18_Witness ==
  /\ wpOuterRepo
  /\ wpGit.commits # <<>>
  /\ NotebookPath \in wpGit.commits[Len(wpGit.commits)]
  /\ "projects/todo.md" \in wpDirty
  /\ wpState \in {"Deleting", "Updating"}

\* ------------------------------------------------------------------------
\* Input classifier of the CLI (spec 4.1; README "Multilingual Input
\* Support").  "Z" is a CJK ideograph, "a" a Latin letter, "." one of the
\* terminal marks . ! ?, "@" one of the Chinese terminal marks.
\* ------------------------------------------------------------------------
ClassAlphabet == {"a", " ", ".", "Z", "@"}

RECURSIVE Repeat(_, _)
Repeat(s, n) == IF n = 0 THEN <<>> ELSE s \o Repeat(s, n - 1)

\* every text of up to MaxTextLen characters, and the long inputs: n tokens
\* or n ideographs, with and without a terminal mark, and a mixed sentence
ClassTexts ==
  UNION {[1..n -> ClassAlphabet] : n \in 0..MaxTextLen}
  \cup {<<"a">> \o Repeat(<<" ", "a">>, n - 1) \o e :
          n \in 1..MaxTokens, e \in {<<>>, <<".">>}}
  \cup {Repeat(<<"Z">>, n) \o e : n \in 1..MaxChars, e \in {<<>>, <<"@">>}}
  \cup {<<"a">> \o Repeat(<<" ", "Z">>, n) : n \in 1..MaxTokens}

IsLatinChar(c) == c = "a"
HasLatin(s) == \E i \in 1..Len(s) : IsLatinChar(s[i])

\* the number of whitespace-separated tokens
TokenCount(s) ==
  Cardinality({i \in 1..Len(s) : ~IsSpace(s[i]) /\ (i = 1 \/ IsSpace(s[i - 1]))})

\* the number of characters of the trimmed text
CharCount(s) == Len(Trim(s))

EndsWithMark(s, marks) == Trim(s) # <<>> /\ Trim(s)[Len(Trim(s))] \in marks

\* language detection: a scan of the characters
DetectLanguage(s) ==
  IF HasChinese(s) /\ HasLatin(s) THEN "Mixed"
  ELSE IF HasChinese(s) THEN "Chinese"
  ELSE "English"

EnglishType(s) ==
  IF TokenCount(s) = 1 THEN "Word"
  ELSE IF TokenCount(s) \in 2..5 /\ ~EndsWithMark(s, {"."}) THEN "Phrase"
  ELSE "Sentence"

\* the phrase range tested before the word range
ChineseTypeWrong(s) ==
  IF CharCount(s) \in 2..7 /\ ~EndsWithMark(s, {"@"}) THEN "Phrase"
  ELSE IF CharCount(s) \in 1..2 THEN "Word"
  ELSE "Sentence"

ChineseType(s) ==
  IF CharCount(s) \in 1..2 THEN "Word"
  ELSE IF CharCount(s) \in 2..7 /\ ~EndsWithMark(s, {"@"}) THEN "Phrase"
  ELSE "Sentence"

\* Mixed input: a sentence, unless it is one token (a short word pair)
MixedType(s) == IF TokenCount(s) = 1 THEN "Word" ELSE "Sentence"

classify(s) ==
  LET language == DetectLanguage(s)
  IN [language |-> language,
      type |-> CASE language = "English" -> EnglishType(s)
                 [] language = "Chinese" -> ChineseType(s)
                 [] OTHER -> MixedType(s)]

NoClass == [language |-> "none", type |-> "none"]

ClassIdle == clText = <<>> /\ clResult = NoClass

ClassInit == clText \in ClassTexts /\ clResult = NoClass

\* the classifier is applied to the input
Classify ==
  /\ clResult = NoClass
  /\ clResult' = classify(clText)
  /\ UNCHANGED clText

\* the next input arrives
ClassInput ==
  /\ clResult # NoClass
  /\ clText' \in ClassTexts
  /\ clResult' = NoClass

ClassNext ==
  \/ Classify /\ UNCHANGED <<coreVars, midVars, entryVars, launchVars, toastVars, fetchVars, sentVars, locVars, cmdVars>>
  \/ ClassInput /\ UNCHANGED <<coreVars, midVars, entryVars, launchVars, toastVars, fetchVars, sentVars, locVars, cmdVars>>

\* the (language, type) pairs the rules of the classifier allow for a text
ClassPairs(s) ==
  {p \in [language : {"English", "Chinese", "Mixed"},
          type : {"Word", "Phrase", "Sentence"}] :
     /\ p.language = "Mixed" <=> (HasChinese(s) /\ HasLatin(s))
     /\ p.language = "Chinese" => HasChinese(s)
     /\ p.language = "English" => ~HasChinese(s)
     /\ p.language = "English" =>
          /\ p.type = "Word" <=> TokenCount(s) = 1
          /\ p.type = "Phrase" <=>
               TokenCount(s) \in 2..5 /\ ~EndsWithMark(s, {"."})
     /\ p.language = "Chinese" =>
          /\ p.type = "Word" <=> CharCount(s) \in 1..2
          /\ p.type = "Phrase" <=>
               CharCount(s) \in 3..7 /\ ~EndsWithMark(s, {"@"})
     /\ p.language = "Mixed" => p.type = MixedType(s)}

\* C21: every text has exactly one (language, type) pair under the rules of
\* the classifier (English: 1 token Word, 2-5 tokens without terminal mark
\* Phrase, otherwise Sentence; Chinese: 1-2 characters Word, up to 7 without
\* terminal mark Phrase, otherwise Sentence; CJK with Latin Mixed), and the
\* classifier returns that pair.
C21_ClassifierTotal ==
  clResult # NoClass => ClassPairs(clText) = {clResult}

\* a text of two ideographs has been classified as a Chinese word
C21_Witness ==
  /\ clResult # NoClass
  /\ clText = <<"Z", "Z">>
  /\ clResult = [language |-> "Chinese", type |-> "Word"]

\* ------------------------------------------------------------------------
\* Query entry points: useWords.handleSearch, LearnWordCommand.handleLearnWord
\* (hooks/useWordFiltering.ts) and the input step of the word processor
\* (spec 4.3), each called with any text
\* ------------------------------------------------------------------------
EntryHandlers == {"handleSearch", "handleLearnWord", "processInput"}

EntryTerms == {<<>>, <<" ">>, <<" ", "\n">>, <<"a">>, <<" ", "a", " ">>, <<"H", "I">>}

NoEntry == [handler |-> "none", term |-> <<>>, pc |-> "idle", toast |-> "none"]

\* the state handleSearch closes over: the notebook has been loaded
EntryClosure(notebook) == loadSavedWords(InitialState(<<>>), notebook)

\* handleLearnWord up to its first await: `if (!wordToLearn.trim())` shows the
\* "Please enter a word" toast and returns
LearnRejectsWrong(term) == term = <<>>
LearnRejects(term) == Trim(term) = <<>>

\* the word processor rejects blank input before classification
ProcessRejects(term) == Trim(term) = <<>>

EntryIdle == enCall = NoEntry /\ enQueried = {} /\ nen = 0

EntryInit == EntryIdle

\* a handler is called and runs up to its first await
EntryCall(handler, term) ==
  /\ enCall.pc \in {"idle", "done"}
  /\ nen < MaxEntryCalls
  /\ nen' = nen + 1
  /\ CASE handler = "handleSearch" ->
            \E notebook \in InitialNotebooks :
              LET cl == EntryClosure(notebook)
              IN enCall' = [handler |-> handler, term |-> term, toast |-> "none",
                            pc |-> IF handleSearch(cl, cl, term).query
                                     THEN "toast" ELSE "done"]
       [] handler = "handleLearnWord" ->
            enCall' = [handler |-> handler, term |-> term, toast |-> "none",
                       pc |-> IF LearnRejects(term) THEN "reject" ELSE "toast"]
       [] OTHER ->
            enCall' = IF ProcessRejects(term)
                        THEN [handler |-> handler, term |-> term, pc |-> "done",
                              toast |-> "please enter a word"]
                        ELSE [handler |-> handler, term |-> term,
                              pc |-> "Classifying", toast |-> "none"]
  /\ UNCHANGED enQueried

\* handleLearnWord: the "Please enter a word" toast is shown; return
EntryRejected ==
  /\ enCall.pc = "reject"
  /\ enCall' = [enCall EXCEPT !.pc = "done", !.toast = "failure"]
  /\ UNCHANGED <<enQueried, nen>>

\* `await showToast(Animated)` resolves and getWordExplanation starts the CLI
EntryToast ==
  /\ enCall.pc = "toast"
  /\ enCall' = [enCall EXCEPT !.pc = "query", !.toast = "animated"]
  /\ enQueried' = enQueried \cup {enCall.term}
  /\ UNCHANGED nen

\* Classifying --done--> Querying: the AI provider is queried
EntryClassified ==
  /\ enCall.pc = "Classifying"
  /\ enCall' = [enCall EXCEPT !.pc = "Querying"]
  /\ enQueried' = enQueried \cup {enCall.term}
  /\ UNCHANGED nen

\* the query settles: a result, null, or an error
EntryResult ==
  /\ enCall.pc \in {"query", "Querying"}
  /\ \E toast \in {"success", "failure"} :
       enCall' = [enCall EXCEPT !.pc = "done", !.toast = toast]
  /\ UNCHANGED <<enQueried, nen>>

EntryNext ==
  /\ \/ \E handler \in EntryHandlers, term \in EntryTerms : EntryCall(handler, term)
     \/ EntryRejected
     \/ EntryToast
     \/ EntryClassified
     \/ EntryResult
  /\ UNCHANGED <<coreVars, midVars, classVars, launchVars, toastVars, fetchVars, sentVars, locVars, cmdVars>>

\* C22: a call of handleSearch, of handleLearnWord or an input of the word
\* processor with an empty or whitespace-only text never reaches the CLI
\* query or the Classifying / Querying states, and no query is ever issued
\* for such a text.
C22_BlankInputNoQuery ==
  /\ \A term \in enQueried : Trim(term) # <<>>
  /\ Trim(enCall.term) = <<>> => enCall.pc \in {"idle", "reject", "done"}

\* handleLearnWord was called with a whitespace-only text and has returned
\* after its failure toast, with no query issued
C22_Witness ==
  /\ enCall.handler = "handleLearnWord"
  /\ enCall.term = <<" ", "\n">>
  /\ enCall.pc = "done"
  /\ enCall.toast = "failure"
  /\ enQueried = {}

\* ------------------------------------------------------------------------
\* Launch with a word argument: the mount and auto-trigger effects of
\* useWords (hooks/useWords.ts) and of Word4YouCommand
\* (components/WordDetail.tsx)
\* ------------------------------------------------------------------------
LaunchVariants == {"useWords", "Word4YouCommand"}

LaunchArgs == {<<>>, <<" ">>, <<"a">>, <<" ", "a">>, <<"H", "I">>}

\* whether a notebook holds an entry whose heading equals term, ignoring case
InNotebook(notebook, term) ==
  \E i \in 1..Len(notebook) : ToLower(notebook[i].word) = ToLower(term)

\* handleSearch up to its first await; Word4YouCommand's handleSearch does not
\* clear the AI result before it queries
LaunchSearch(variant, cl, s, term) ==
  IF variant = "useWords" THEN handleSearch(cl, s, term)
  ELSE IF Trim(term) = <<>> \/ SearchLookup(cl, term)
    THEN [state |-> [s EXCEPT !.aiResult = AiNull], query |-> FALSE]
  ELSE [state |-> [s EXCEPT !.isLoading = TRUE], query |-> TRUE]

\* the auto-trigger effect runs after its dependencies changed:
\* [initialWord, isLoadingSaved] in useWords, [argWord, savedWordsMap] in
\* Word4YouCommand (every setSavedWordsMap stores a new Map object)
AutoTriggerDue(variant, first, mapChanged, loadingChanged) ==
  IF variant = "useWords" THEN first \/ loadingChanged ELSE first \/ mapChanged

\* the condition inside the effect
AutoTriggerFires(variant, arg, cl) ==
  IF variant = "useWords" THEN Trim(arg) # <<>> /\ ~cl.isLoadingSaved
  ELSE Trim(arg) # <<>>

LaunchIdle ==
  /\ laVariant = "none"
  /\ laArg = <<>>
  /\ laDisk = <<>>
  /\ laSt = InitialState(<<>>)
  /\ laRn = InitialState(<<>>)
  /\ laMap = [set |-> 0, seen |-> 0]
  /\ laPc = "start"
  /\ laTasks = {}
  /\ laCalls = <<>>
  /\ laReloads = 0

\* the command is launched: first render with the initial state
LaunchInit ==
  /\ laVariant \in LaunchVariants
  /\ laArg \in LaunchArgs
  /\ laDisk \in InitialNotebooks
  /\ laSt = InitialState(laArg)
  /\ laRn = laSt
  /\ laMap = [set |-> 0, seen |-> 0]
  /\ laPc = "start"
  /\ laTasks = {}
  /\ laCalls = <<>>
  /\ laReloads = 0

\* one run of the auto-trigger effect with the closure cl on the queued state s
AutoTrigger(cl, s) ==
  IF AutoTriggerFires(laVariant, laArg, cl)
    THEN LET term == Trim(laArg)
             r == LaunchSearch(laVariant, cl, [s EXCEPT !.searchText =
                                 IF laVariant = "useWords" THEN term ELSE @], term)
         IN /\ laSt' = r.state
            /\ laCalls' = Append(laCalls, [term |-> term,
                                           loaded |-> ~cl.isLoadingSaved,
                                           saved |-> InNotebook(laDisk, term),
                                           query |-> r.query])
            /\ IF r.query
                 THEN laTasks' = laTasks \cup {[id |-> Len(laCalls) + 1, pc |-> "toast"]}
                 ELSE UNCHANGED laTasks
    ELSE /\ laSt' = s
         /\ UNCHANGED <<laCalls, laTasks>>

\* the effects of the first commit, in declaration order: the mount effect
\* (checkCliInstallation with the CLI installed, or up to `await ensureCLI()`
\* without it; loadSavedWords in Word4YouCommand), then the auto-trigger
\* effect with the closure of the first render
LaunchMount ==
  /\ laPc = "start"
  /\ \/ /\ laPc' = "ready"
        /\ laMap' = [laMap EXCEPT !.set = @ + 1]
        /\ AutoTrigger(laRn, loadSavedWords([laSt EXCEPT !.cliInstalled = "true"], laDisk))
     \/ /\ laVariant = "useWords"
        /\ laPc' = "ensure"
        /\ AutoTrigger(laRn, laSt)
        /\ UNCHANGED laMap
  /\ UNCHANGED <<laVariant, laArg, laDisk, laRn, laReloads>>

\* useWords: ensureCLI settles
LaunchEnsureDone ==
  /\ laPc = "ensure"
  /\ \/ /\ laSt' = loadSavedWords([laSt EXCEPT !.cliInstalled = "true"], laDisk)
        /\ laMap' = [laMap EXCEPT !.set = @ + 1]
        /\ laPc' = "ready"
     \/ /\ laSt' = [laSt EXCEPT !.cliInstalled = "false"]
        /\ laPc' = "failed"
        /\ UNCHANGED laMap
  /\ UNCHANGED <<laVariant, laArg, laDisk, laRn, laTasks, laCalls, laReloads>>

\* React renders the queued state and runs the auto-trigger effect when its
\* dependencies changed
LaunchRender ==
  /\ laPc # "start"
  /\ laSt # laRn \/ laMap.set # laMap.seen
  /\ laRn' = laSt
  /\ laMap' = [laMap EXCEPT !.seen = laMap.set]
  /\ IF AutoTriggerDue(laVariant, FALSE, laMap.set # laMap.seen,
                       laSt.isLoadingSaved # laRn.isLoadingSaved)
       THEN AutoTrigger(laSt, laSt)
       ELSE UNCHANGED <<laSt, laCalls, laTasks>>
  /\ UNCHANGED <<laVariant, laArg, laDisk, laPc, laReloads>>

\* handleSearch: `await showToast` resolves and getWordExplanation starts the
\* CLI, or showToast rejects
LaunchToast ==
  /\ \E t \in laTasks :
       /\ t.pc = "toast"
       /\ \/ /\ laTasks' = (laTasks \ {t}) \cup {[t EXCEPT !.pc = "query"]}
             /\ UNCHANGED laSt
          \/ /\ laTasks' = laTasks \ {t}
             /\ laSt' = [laSt EXCEPT !.isLoading = FALSE]
  /\ UNCHANGED <<laVariant, laArg, laDisk, laRn, laMap, laPc, laCalls, laReloads>>

\* getWordExplanation settles: a result, or null / an error
LaunchResult ==
  /\ \E t \in laTasks :
       /\ t.pc = "query"
       /\ laTasks' = laTasks \ {t}
       /\ \E result \in {[ok |-> TRUE, word |-> Trim(laArg), id |-> Len(laCalls)], AiNull} :
            laSt' = [laSt EXCEPT !.aiResult = result, !.isLoading = FALSE]
  /\ UNCHANGED <<laVariant, laArg, laDisk, laRn, laMap, laPc, laCalls, laReloads>>

\* a save or delete started by the user has succeeded: loadSavedWords
LaunchReload ==
  /\ laPc = "ready"
  /\ laReloads < MaxReloads
  /\ laReloads' = laReloads + 1
  /\ laSt' = loadSavedWords(laSt, laDisk)
  /\ laMap' = [laMap EXCEPT !.set = @ + 1]
  /\ UNCHANGED <<laVariant, laArg, laDisk, laRn, laPc, laTasks, laCalls>>

LaunchNext ==
  /\ \/ LaunchMount
     \/ LaunchEnsureDone
     \/ LaunchRender
     \/ LaunchToast
     \/ LaunchResult
     \/ LaunchReload
  /\ UNCHANGED <<coreVars, midVars, classVars, entryVars, toastVars, fetchVars, sentVars, locVars, cmdVars>>

\* the handleSearch calls of the auto-trigger effect that went on to query
AutoQueries == SelectSeq(laCalls, LAMBDA c : c.query)

\* C23: the launch auto-query issues at most one CLI call; no further query
\* is started for the argument without a user action.
C23_AutoQueryOnce ==
  laReloads = 0 => Len(AutoQueries) <= 1

\* C23 for the useWords hook alone: its auto-trigger effect queries at most
\* once, whatever follows.
C23_UseWordsAutoQueryOnce ==
  laVariant = "useWords" => Len(AutoQueries) <= 1

\* ------------------------------------------------------------------------
\* Status notifications of the search, save, delete and update handlers
\* (hooks/useWords.ts, hooks/useWordSave.ts, useWordUpdate): one toast per
\* action, Animated while it runs.  The word service reduces every
\* subprocess failure to false / null and never rejects.
\* ------------------------------------------------------------------------
ToastHandlers ==
  {"useWords.handleSearch", "useWords.handleSave", "useWords.handleDelete",
   "useWords.handleUpdate", "useWordSave.handleSave", "useWordUpdate.handleUpdate"}

ToastKind(handler) ==
  CASE handler = "useWords.handleSearch" -> "search"
    [] handler \in {"useWords.handleSave", "useWordSave.handleSave"} -> "save"
    [] handler = "useWords.handleDelete" -> "delete"
    [] OTHER -> "update"

NoAction == [handler |-> "none", pc |-> "idle", toast |-> "none", calls |-> 0]

ToastIdle == tAct = NoAction /\ tLog = <<>>

ToastInit == ToastIdle

\* the user runs an action: the handler up to `await showToast(Animated)`
ToastStart(handler) ==
  /\ tAct.pc = "idle"
  /\ Len(tLog) < MaxActions
  /\ tAct' = [handler |-> handler, pc |-> "toast", toast |-> "none", calls |-> 0]
  /\ UNCHANGED tLog

\* showToast resolves with the Animated toast and the first CLI call starts
\* (getWordExplanation for search and update), or showToast rejects
ToastShown ==
  /\ tAct.pc = "toast"
  /\ \/ tAct' = [tAct EXCEPT !.pc = "cli", !.toast = "animated", !.calls = 1]
     \/ tAct' = [tAct EXCEPT !.pc = "done"]
  /\ UNCHANGED tLog

\* handleUpdate after getWordExplanation returned null: Failure toast, return
UpdateNoContentWrong == [tAct EXCEPT !.pc = "done"]
UpdateNoContent == [tAct EXCEPT !.pc = "done", !.toast = "failure"]

\* the CLI call returns: true / a result, or false / null
ToastCliReturn ==
  /\ tAct.pc = "cli"
  /\ \E ok \in BOOLEAN :
       LET kind == ToastKind(tAct.handler)
       IN tAct' =
            IF kind = "update" /\ tAct.calls = 1
              THEN IF ok THEN [tAct EXCEPT !.calls = 2]
                   ELSE UpdateNoContent
            ELSE IF ~ok THEN [tAct EXCEPT !.pc = "done", !.toast = "failure"]
            ELSE IF kind = "search" THEN [tAct EXCEPT !.pc = "done", !.toast = "success"]
            ELSE [tAct EXCEPT !.pc = "reload", !.toast = "success"]
  /\ UNCHANGED tLog

\* `await loadSavedWords()` / `await onWordSaved()` after a success
ToastReload ==
  /\ tAct.pc = "reload"
  /\ tAct' = [tAct EXCEPT !.pc = "done"]
  /\ UNCHANGED tLog

\* the handler has returned
ToastFinish ==
  /\ tAct.pc = "done"
  /\ tLog' = Append(tLog, [handler |-> tAct.handler, toast |-> tAct.toast])
  /\ tAct' = NoAction

ToastNext ==
  /\ \/ \E handler \in ToastHandlers : ToastStart(handler)
     \/ ToastShown
     \/ ToastCliReturn
     \/ ToastReload
     \/ ToastFinish
  /\ UNCHANGED <<coreVars, midVars, classVars, entryVars, launchVars, fetchVars, sentVars, locVars, cmdVars>>

\* C24: an action whose Animated toast was shown and whose CLI call has
\* returned shows Success or Failure: no handler is past its last CLI call,
\* or has finished, with the toast still Animated.
C24_OutcomeShown ==
  /\ tAct.pc \in {"reload", "done"} /\ tAct.toast # "none" =>
       tAct.toast \in {"success", "failure"}
  /\ \A i \in 1..Len(tLog) : tLog[i].toast \in {"none", "success", "failure"}

\* an update whose fresh-content query returned null has finished with the
\* Failure toast
C24_Witness ==
  /\ tLog # <<>>
  /\ tLog[Len(tLog)] = [handler |-> "useWordUpdate.handleUpdate", toast |-> "failure"]

Thrown == {"error", "hash-mismatch", "unsupported"}

\* C34: when ensureCLI throws, for whatever reason (download error, hash
\* mismatch, mkdir, copy or chmod failure), the call has put no file at the
\* install path, so that the downloaded-copy check stays false and a later
\* ensureCLI downloads and verifies again.
C34_ThrowLeavesNoFile ==
  \A c \in Callers : eres[c] \in Thrown => ewrote[c] = "no"

\* what the code does: a call that fails while downloading or verifying
\* leaves the install path as it was
C34_DownloadFailureLeavesNoFile ==
  [][\A c \in Callers :
       epc[c] \in {"call", "mkdirTmp", "fetch", "writing", "hash"} /\ eres'[c] \in Thrown
         => cliFile' = cliFile /\ ewrote'[c] = "no"]_vars

\* ------------------------------------------------------------------------
\* Claims about the hook's state after save, search and update
\* ------------------------------------------------------------------------
\* C35: whenever a handleSave invocation has ended, by success, by a reported
\* failure or by a step that rejects (showToast, the save call, the reload),
\* isSaving is false again: with no handleSave running, saving is not
\* disabled.
C35_IsSavingReset ==
  (\A t \in tasks : t.kind # "save") => ~hst.isSaving

\* what the code does: an invocation that ends after its save call settled
\* resets isSaving
C35_SettledSaveResetsIsSaving ==
  [][\A t \in tasks :
       t.kind = "save" /\ t.pc = "cli" /\ t \notin tasks' => ~hst'.isSaving]_vars

\* what the code does: once the effects have run, a non-null aiResult has
\* its word equal to the trimmed current search text: a result that
\* arrives for a search term the user has since changed is discarded.
C36_AiResultMatchesSearchText ==
  hst = hrn /\ hst.aiResult.ok => hst.aiResult.word = Trim(hst.searchText)

\* C36: a result arriving for another term never removes or
\* replaces the result of a later query for the current search text.
C36_StaleResultKeepsCurrent ==
  [][\A t \in tasks :
       /\ t.kind = "search" /\ t.pc = "query" /\ t \notin tasks'
       /\ Trim(t.word) # Trim(hst.searchText)
       /\ hst.aiResult.ok /\ hst.aiResult.word = Trim(hst.searchText)
       /\ t.id < hst.aiResult.id
       => hst'.aiResult = hst.aiResult]_vars

\* the items of a rendered list that WordListView marks as AI result:
\* allWords = aiResult ? [aiResult, ...filteredSavedWords] : filteredSavedWords,
\* position 0 standing for the aiResult at the head
MarkedAsAiResult(r) ==
  (IF r.aiResult.ok THEN {0} ELSE {}) \cup
  {i \in 1..Len(FilteredSavedWords(r)) : IsAiResult(r, FilteredSavedWords(r)[i].word)}

\* C37: in every rendered word list the item marked as AI result (offering
\* Save, without Delete and Update) is exactly the unsaved aiResult at the
\* head of the list; no saved entry is marked as the AI result.
C37_OnlyHeadMarkedAsAiResult ==
  ListShown(hrn) => MarkedAsAiResult(hrn) = (IF hrn.aiResult.ok THEN {0} ELSE {})

\* what the code does: while the rendered aiResult is not a saved word, it
\* alone is marked
C37_UnsavedResultAloneMarked ==
  ListShown(hrn) /\ hrn.aiResult.ok /\ ToLower(hrn.aiResult.word) \notin DOMAIN hrn.savedWordsMap
    => MarkedAsAiResult(hrn) = {0}

\* C38: when the save CLI call reports failure (the subprocess has written
\* nothing), aiResult, savedWords and savedWordsMap are unchanged: the
\* unsaved AI result stays displayed and the notebook is not reloaded.
C38_FailedSaveKeepsState ==
  [][\A t \in tasks :
       t.kind = "save" /\ t.pc = "cli" /\ t \notin tasks' /\ disk' = disk
         => /\ hst'.aiResult = hst.aiResult
            /\ hst'.savedWords = hst.savedWords
            /\ hst'.savedWordsMap = hst.savedWordsMap]_vars

\* a save that was rendered as running has ended without a write, and the
\* AI result it was started from is still the current one
C38_Witness ==
  /\ hrn.isSaving
  /\ ~hst.isSaving
  /\ \A t \in tasks : t.kind # "save"
  /\ hst.aiResult.ok
  /\ hst.aiResult = hrn.aiResult
  /\ disk = <<>>
  /\ hst.savedWords = <<>>

\* C39: the CLI update is started only after the fresh AI query has
\* succeeded and only with a non-empty timestamp of the existing entry.
C39_UpdateOnlyWithTimestamp ==
  \A t \in CliRunning("update") : t.timestamp # NoTimestamp /\ t.timestamp = t.selected

\* what the code does: the update subprocess is started by the step in which
\* the fresh query succeeds and by no other, and a handleUpdate that ends at
\* its toast or with a failed query leaves the notebook and the hook's state
\* as they were
C39_FailedQueryStartsNoUpdate ==
  [][/\ \A t \in tasks' :
          t.kind = "update" /\ t.pc = "cli"
            => \E u \in tasks : u.id = t.id /\ u.pc \in {"query", "cli"}
     /\ \A t \in tasks :
          /\ t.kind = "update" /\ t.pc \in {"toast", "query"}
          /\ ~\E u \in tasks' : u.id = t.id
          => disk' = disk /\ hst' = hst]_vars

\* ------------------------------------------------------------------------
\* download / fetchWithRedirects (hooks/useWordFiltering.ts): one fetch
\* against a server that answers with a chain of redirects and then a final
\* response
\* ------------------------------------------------------------------------
MAX_REDIRECTS == 5

FinalResponses == {"200", "404", "error"}

NoFetch == [hops |-> 0, final |-> "200", redirectCount |-> 0, requests |-> 0,
            pc |-> "idle", result |-> "none"]

FetchIdle == fetch = NoFetch /\ nfetch = 0

FetchInit == FetchIdle

\* download(url, destDir, options) after mkdir: fetchWithRedirects(url)
FetchStart ==
  /\ fetch.pc \in {"idle", "settled"}
  /\ nfetch < MaxFetches
  /\ nfetch' = nfetch + 1
  /\ \E hops \in 0..MaxHops, final \in FinalResponses :
       fetch' = [hops |-> hops, final |-> final, redirectCount |-> 0, requests |-> 0,
                 pc |-> "call", result |-> "none"]

\* fetchWithRedirects(currentUrl, redirectCount) up to https.get
FetchCall ==
  /\ fetch.pc = "call"
  /\ fetch' = IF fetch.redirectCount >= MAX_REDIRECTS
                THEN [fetch EXCEPT !.pc = "settled", !.result = "too-many-redirects"]
                ELSE [fetch EXCEPT !.pc = "request", !.requests = @ + 1]
  /\ UNCHANGED nfetch

\* the response callback: a 3xx with a location is followed with
\* redirectCount + 1, any other status but 200 rejects, a 200 is piped to the
\* file; a request error rejects
FetchResponse ==
  /\ fetch.pc = "request"
  /\ fetch' =
       IF fetch.redirectCount < fetch.hops
         THEN [fetch EXCEPT !.pc = "call", !.redirectCount = @ + 1]
       ELSE IF fetch.final = "200" THEN [fetch EXCEPT !.pc = "pipe"]
       ELSE [fetch EXCEPT !.pc = "settled", !.result = "failed"]
  /\ UNCHANGED nfetch

\* await streamPipeline(response, createWriteStream(destPath))
FetchPiped ==
  /\ fetch.pc = "pipe"
  /\ \E result \in {"downloaded", "failed"} :
       fetch' = [fetch EXCEPT !.pc = "settled", !.result = result]
  /\ UNCHANGED nfetch

FetchNext ==
  /\ \/ FetchStart
     \/ FetchCall
     \/ FetchResponse
     \/ FetchPiped
  /\ UNCHANGED <<coreVars, midVars, classVars, entryVars, launchVars, toastVars, sentVars, locVars, cmdVars>>

\* C27: a chain of up to 5 redirects is followed to the final response (the
\* fetch requests it), and a chain of more than 5 redirects ends with the
\* too-many-redirects error.
C27_FiveHopsFollowed ==
  fetch.pc = "settled" =>
    IF fetch.hops <= 5
      THEN fetch.requests = fetch.hops + 1 /\ fetch.result # "too-many-redirects"
      ELSE fetch.result = "too-many-redirects"

\* what the code does: up to 4 redirects are followed, 5 or more are rejected,
\* and no fetch makes more than 5 requests
C27_FourHopsFollowed ==
  /\ fetch.redirectCount <= MAX_REDIRECTS
  /\ fetch.requests <= MAX_REDIRECTS
  /\ fetch.pc = "settled" =>
       IF fetch.hops <= 4
         THEN fetch.requests = fetch.hops + 1 /\ fetch.result # "too-many-redirects"
         ELSE fetch.result = "too-many-redirects"

\* the save, delete and update subprocesses that are running
MutationsRunning == {t \in tasks : t.kind \in {"save", "delete", "update"} /\ t.pc = "cli"}

\* C28: at most one notebook-mutating CLI invocation (save, delete, update)
\* started by the extension is in flight at any time.
C28_OneMutationInFlight == Cardinality(MutationsRunning) <= 1

\* C29: on a launch with a non-empty word argument, handleSearch is not run
\* from a render that precedes the loaded saved words, it runs once, for the
\* trimmed argument, and it queries the AI only when the word is not in the
\* notebook.
C29_LaunchSearchAfterLoad ==
  laReloads = 0 =>
    /\ Len(laCalls) <= 1
    /\ \A i \in 1..Len(laCalls) :
         /\ laCalls[i].term = Trim(laArg)
         /\ laCalls[i].loaded
         /\ laCalls[i].query => ~laCalls[i].saved

\* C29 for the useWords hook alone
C29_UseWordsLaunch ==
  laVariant = "useWords" =>
    /\ Len(laCalls) <= 1
    /\ \A i \in 1..Len(laCalls) :
         /\ laCalls[i].term = Trim(laArg)
         /\ laCalls[i].loaded
         /\ laCalls[i].query <=> ~laCalls[i].saved

\* ------------------------------------------------------------------------
\* parseComposedSentence (components/WordDetail.tsx)
\* ------------------------------------------------------------------------
\* lines a compose output is made of: the heading, English and Chinese
\* bullets, a bullet with surrounding blanks, and a line that is no bullet
SentenceLines ==
  { <<"#", "#", " ", "a", " ", "+", " ", "b">>,
    <<"-", " ", "a">>, <<"-", " ", "b", " ", "b">>,
    <<"-", " ", "Z">>, <<"-", " ", "Z", "Z">>,
    <<" ", "-", " ", "a", "Z", " ">>,
    <<"a">> }

SentenceOutputs ==
  {JoinLines(ls) : ls \in UNION {[1..n -> SentenceLines] : n \in 0..MaxLines}}

IsBullet(line) == StartsWith(line, <<"-", " ">>)

\* one iteration of the loop over the trimmed, non-empty lines
SentenceStep(acc, line) ==
  IF StartsWith(line, <<"#", "#", " ">>) /\ Includes(line, <<"+">>) THEN acc
  ELSE IF IsBullet(line) /\ acc.english = <<>>
    THEN IF ~HasChinese(StripPrefix(line, <<"-", " ">>))
           THEN [acc EXCEPT !.english = StripPrefix(line, <<"-", " ">>)]
           ELSE acc
  ELSE IF IsBullet(line) /\ acc.english # <<>> /\ acc.chinese = <<>>
    THEN IF HasChinese(StripPrefix(line, <<"-", " ">>))
           THEN [acc EXCEPT !.chinese = StripPrefix(line, <<"-", " ">>)]
           ELSE acc
  ELSE acc

RECURSIVE SentenceLoop(_, _, _)
SentenceLoop(lines, i, acc) ==
  IF i > Len(lines) THEN acc ELSE SentenceLoop(lines, i + 1, SentenceStep(acc, lines[i]))

\* { english, chinese, word1, word2 } when both were found, null otherwise
parseComposedSentence(out) ==
  LET acc == SentenceLoop(TrimmedLines(out), 1, [english |-> <<>>, chinese |-> <<>>])
  IN IF acc.english # <<>> /\ acc.chinese # <<>>
       THEN [ok |-> TRUE, english |-> acc.english, chinese |-> acc.chinese]
       ELSE [ok |-> FALSE]

NotParsed == [ok |-> FALSE, pending |-> TRUE]

SentenceIdle == sentOut = <<>> /\ sentParsed = NotParsed

SentenceInit == sentOut \in SentenceOutputs /\ sentParsed = NotParsed

\* generateSentence: parseComposedSentence(output, word1, word2)
SentenceParse ==
  /\ sentParsed = NotParsed
  /\ sentParsed' = parseComposedSentence(sentOut)
  /\ UNCHANGED sentOut

\* the CLI returns the output of the next compose call
SentenceOutput ==
  /\ sentParsed # NotParsed
  /\ sentOut' \in SentenceOutputs
  /\ sentParsed' = NotParsed

SentenceNext ==
  /\ \/ SentenceParse
     \/ SentenceOutput
  /\ UNCHANGED <<coreVars, midVars, classVars, entryVars, launchVars, toastVars, fetchVars, locVars, cmdVars>>

\* the text of the first bullet line of the output with (without) Chinese
\* characters, <<>> when there is none
FirstBullet(out, chinese) ==
  LET lines == TrimmedLines(out)
      hits == {i \in 1..Len(lines) :
                 /\ IsBullet(lines[i])
                 /\ HasChinese(StripPrefix(lines[i], <<"-", " ">>)) = chinese}
  IN IF hits = {} THEN <<>>
     ELSE StripPrefix(lines[CHOOSE i \in hits : \A j \in hits : i <= j], <<"-", " ">>)

\* C30: for every output, english is the first "- " line without Chinese
\* characters and chinese the first "- " line with Chinese characters, in
\* whichever order the two lines come; the result is null only when one of
\* them is missing.
C30_FirstBulletOfEachKind ==
  sentParsed # NotParsed =>
    IF FirstBullet(sentOut, FALSE) # <<>> /\ FirstBullet(sentOut, TRUE) # <<>>
      THEN sentParsed = [ok |-> TRUE, english |-> FirstBullet(sentOut, FALSE),
                         chinese |-> FirstBullet(sentOut, TRUE)]
      ELSE sentParsed = [ok |-> FALSE]

\* what the code does: english is the first bullet without Chinese
\* characters, and a heading line changes nothing
C30_EnglishIsFirstPlainBullet ==
  sentParsed # NotParsed /\ sentParsed.ok =>
    /\ sentParsed.english = FirstBullet(sentOut, FALSE)
    /\ HasChinese(sentParsed.chinese)

\* ------------------------------------------------------------------------
\* Notebook location: getVocabularyPath and createEnvironmentFromPreferences
\* (config.ts), and the path the CLI derives from its base directory
\* ------------------------------------------------------------------------
\* paths are sequences of segments; os.homedir() is /home/u
HomeDir == <<"home", "u">>

\* values of the vocabularyBaseDir preference: left empty, the home
\* directory in three spellings, and two other directories
BaseDirs ==
  { <<>>, <<"~">>, <<"home", "u">>, <<"~", "Documents">>, <<"data">> }

\* path.join(os.homedir(), "word4you", "vocabulary_notebook.md")
getVocabularyPath == HomeDir \o <<"word4you", "vocabulary_notebook.md">>

\* WORD4YOU_VOCABULARY_BASE_DIR: preferences.vocabularyBaseDir || "~"
createEnvironmentFromPreferences(pref) ==
  [WORD4YOU_VOCABULARY_BASE_DIR |-> IF pref = <<>> THEN <<"~">> ELSE pref]

\* the CLI's notebook: {base}/word4you/vocabulary_notebook.md, a leading ~
\* standing for the home directory
CliNotebookPath(base) ==
  (IF base # <<>> /\ Head(base) = "~" THEN HomeDir \o Tail(base) ELSE base)
    \o <<"word4you", "vocabulary_notebook.md">>

NotebookPaths ==
  {getVocabularyPath} \cup
  {CliNotebookPath(createEnvironmentFromPreferences(p).WORD4YOU_VOCABULARY_BASE_DIR) :
     p \in BaseDirs}

LocIdle ==
  /\ locPref = <<>>
  /\ locFiles = [p \in NotebookPaths |-> {}]
  /\ locList = {}
  /\ locLast = 0
  /\ locUnder = <<>>
  /\ locFresh = FALSE

LocInit ==
  /\ locPref \in BaseDirs
  /\ locFiles = [p \in NotebookPaths |-> {}]
  /\ locList = {}
  /\ locLast = 0
  /\ locUnder = <<>>
  /\ locFresh = FALSE

\* a save call succeeds: the subprocess, started with the environment made
\* from the preferences, appends the entry to its notebook
LocSave ==
  /\ locLast < MaxSaves
  /\ LET target ==
           CliNotebookPath(
             createEnvironmentFromPreferences(locPref).WORD4YOU_VOCABULARY_BASE_DIR)
     IN locFiles' = [locFiles EXCEPT ![target] = @ \cup {locLast + 1}]
  /\ locLast' = locLast + 1
  /\ locUnder' = locPref
  /\ locFresh' = FALSE
  /\ UNCHANGED <<locPref, locList>>

\* loadSavedWords: parseSavedWords(getVocabularyPath())
LocReload ==
  /\ locList' = locFiles[getVocabularyPath]
  /\ locFresh' = TRUE
  /\ UNCHANGED <<locPref, locFiles, locLast, locUnder>>

\* the user edits the preference between two commands
LocSetPreference ==
  /\ locPref' \in BaseDirs \ {locPref}
  /\ UNCHANGED <<locFiles, locList, locLast, locUnder, locFresh>>

LocNext ==
  /\ \/ LocSave
     \/ LocReload
     \/ LocSetPreference
  /\ UNCHANGED <<coreVars, midVars, classVars, entryVars, launchVars, toastVars, fetchVars, sentVars, cmdVars>>

\* C32: for every value of the base-directory preference the saved list is
\* read from the file the CLI is configured to write: the entry of the last
\* successful save is in the list loaded by the next reload.
C32_ReadWhereWritten ==
  locFresh /\ locLast # 0 =>
    /\ getVocabularyPath =
         CliNotebookPath(
           createEnvironmentFromPreferences(locUnder).WORD4YOU_VOCABULARY_BASE_DIR)
    /\ locLast \in locList

\* what the code does: the entry is listed by the next reload when it was
\* saved while the preference was empty or named the home directory
C32_HomeReadWhereWritten ==
  locFresh /\ locLast # 0 /\ locUnder \in {<<>>, <<"~">>, HomeDir} =>
    /\ getVocabularyPath =
         CliNotebookPath(
           createEnvironmentFromPreferences(locUnder).WORD4YOU_VOCABULARY_BASE_DIR)
    /\ locLast \in locList

\* ------------------------------------------------------------------------
\* Command lines of the word service (services/wordService.ts) and the
\* /bin/sh that execSync hands them to
\* ------------------------------------------------------------------------
\* characters of a word or content string: a letter, a double quote, a
\* backslash, a dollar sign, a backtick and a newline
\* the backtick character (the one-character string has no TLA+ spelling)
Backtick == "backtick"
ArgAlphabet == {"a", "\"", "\\", "$", Backtick, "\n"}
Strings(n) == UNION {[1..k -> ArgAlphabet] : k \in 0..n}

\* str.replace(/"/g, '\\"')
RECURSIVE EscapeQuotes(_)
EscapeQuotes(s) ==
  IF s = <<>> THEN <<>>
  ELSE (IF Head(s) = "\"" THEN <<"\\", "\"">> ELSE <<Head(s)>>) \o EscapeQuotes(Tail(s))

NoEscape(s) == s

Quoted(s) == <<"\"">> \o s \o <<"\"">>

\* the position of the next backtick after position i that no backslash
\* precedes, 0 when there is none
RECURSIVE ClosingBacktick(_, _)
ClosingBacktick(cmd, i) ==
  IF i > Len(cmd) THEN 0
  ELSE IF cmd[i] = "\\" THEN ClosingBacktick(cmd, i + 2)
  ELSE IF cmd[i] = Backtick THEN i
  ELSE ClosingBacktick(cmd, i + 1)

\* the position after the parameter name that starts at position i
RECURSIVE NameEnd(_, _)
NameEnd(cmd, i) ==
  IF i <= Len(cmd) /\ cmd[i] = "a" THEN NameEnd(cmd, i + 1) ELSE i

EndWord(st) ==
  IF st.inw THEN [st EXCEPT !.argv = Append(@, st.cur), !.cur = <<>>, !.inw = FALSE]
  ELSE st

Literal(st, ch, n) == [st EXCEPT !.cur = Append(@, ch), !.inw = TRUE, !.i = @ + n]

\* $name, $$ and `command`, the same inside and outside double quotes
Substitution(cmd, st) ==
  LET i == st.i IN
  IF cmd[i] = "$"
    THEN IF i < Len(cmd) /\ cmd[i + 1] = "a"
           THEN [st EXCEPT !.expanded = TRUE, !.inw = TRUE, !.i = NameEnd(cmd, i + 1)]
         ELSE IF i < Len(cmd) /\ cmd[i + 1] = "$"
           THEN [st EXCEPT !.expanded = TRUE, !.inw = TRUE, !.i = i + 2]
         ELSE Literal(st, "$", 1)
    ELSE IF ClosingBacktick(cmd, i + 1) = 0
           THEN [st EXCEPT !.err = TRUE, !.i = Len(cmd) + 1]
           ELSE [st EXCEPT !.ran = TRUE, !.inw = TRUE, !.i = ClosingBacktick(cmd, i + 1) + 1]

\* one step of the shell's reading of the command line
ShellStep(cmd, st) ==
  LET i == st.i
      ch == cmd[i]
      last == i = Len(cmd)
  IN
  IF st.mode = "u" THEN
    IF ch = " " THEN [EndWord(st) EXCEPT !.i = i + 1]
    ELSE IF ch = "\n" THEN
      \* the command ends here; what follows is read as the next command
      [EndWord(st) EXCEPT !.i = Len(cmd) + 1,
                          !.ran = @ \/ \E j \in (i + 1)..Len(cmd) : cmd[j] \notin {" ", "\n"}]
    ELSE IF ch = "\\" THEN
      IF last THEN Literal(st, "\\", 1)
      ELSE IF cmd[i + 1] = "\n" THEN [st EXCEPT !.i = i + 2]
      ELSE Literal(st, cmd[i + 1], 2)
    ELSE IF ch = "\"" THEN [st EXCEPT !.mode = "d", !.inw = TRUE, !.i = i + 1]
    ELSE IF ch \in {"$", Backtick} THEN Substitution(cmd, st)
    ELSE Literal(st, ch, 1)
  ELSE
    IF ch = "\"" THEN [st EXCEPT !.mode = "u", !.i = i + 1]
    ELSE IF ch = "\\" THEN
      IF last THEN [st EXCEPT !.i = i + 1]
      ELSE IF cmd[i + 1] \in {"$", Backtick, "\"", "\\"} THEN Literal(st, cmd[i + 1], 2)
      ELSE IF cmd[i + 1] = "\n" THEN [st EXCEPT !.i = i + 2]
      ELSE Literal(st, "\\", 1)
    ELSE IF ch \in {"$", Backtick} THEN Substitution(cmd, st)
    ELSE Literal(st, ch, 1)

RECURSIVE ShellLoop(_, _)
ShellLoop(cmd, st) ==
  IF st.i > Len(cmd)
    THEN IF st.mode = "d" THEN [st EXCEPT !.err = TRUE] ELSE EndWord(st)
    ELSE ShellLoop(cmd, ShellStep(cmd, st))

\* what /bin/sh -c does with a command line: the argument vector of the
\* (first) command, whether a parameter was expanded, whether some other
\* command ran, and whether the line was rejected (unterminated quote)
ShellRun(cmd) ==
  LET st == ShellLoop(cmd, [i |-> 1, mode |-> "u", cur |-> <<>>, inw |-> FALSE,
                            argv |-> <<>>, expanded |-> FALSE, ran |-> FALSE,
                            err |-> FALSE])
  IN [argv |-> IF st.err THEN <<>> ELSE st.argv, expanded |-> st.expanded,
      ran |-> st.ran, err |-> st.err]

\* child_process.spawn(executablePath, args): no shell
SpawnRun(args) == [argv |-> args, expanded |-> FALSE, ran |-> FALSE, err |-> FALSE]

JoinArgs(parts) ==
  IF parts = <<>> THEN <<>>
  ELSE LET F[k \in 1..Len(parts)] ==
             IF k = 1 THEN parts[1] ELSE F[k - 1] \o <<" ">> \o parts[k]
       IN F[Len(parts)]

CmdVariants == {"execSync", "spawn", "part_001"}
CmdOps == {"query", "save", "update"}
CmdCalls == {c \in CmdVariants \X CmdOps : c[1] = "part_001" => c[2] = "save"}

\* the arguments the extension means to pass
IntendedArgs(variant, op, word, content) ==
  IF op = "query" THEN <<<<"word4you">>, <<"query">>, word, <<"--raw">>>>
  ELSE IF variant = "part_001" THEN <<<<"word4you">>, <<"save">>, word, content>>
  ELSE <<<<"word4you">>, <<op>>, word, <<"--content">>, content>>

\* the command each variant builds and how it starts it
RunCli(variant, op, word, content) ==
  IF variant = "execSync" THEN
    IF op = "query"
      THEN ShellRun(JoinArgs(<<<<"word4you">>, <<"query">>, Quoted(EscapeQuotes(word)),
                               <<"--raw">>>>))
      ELSE ShellRun(JoinArgs(<<<<"word4you">>, <<op>>, Quoted(EscapeQuotes(word)),
                               <<"--content">>, Quoted(EscapeQuotes(content))>>))
  ELSE IF variant = "spawn" THEN
    IF op = "query"
      THEN ShellRun(JoinArgs(<<Quoted(<<"word4you">>), <<"query">>, Quoted(NoEscape(word)),
                               <<"--raw">>>>))
      ELSE SpawnRun(IntendedArgs(variant, op, word, content))
  ELSE ShellRun(JoinArgs(<<Quoted(<<"word4you">>), <<"save">>, Quoted(NoEscape(word)),
                           Quoted(EscapeQuotes(content))>>))

NoCmdCall == [variant |-> "none", op |-> "none", word |-> <<>>, content |-> <<>>]
NoRun == [argv |-> <<>>, expanded |-> FALSE, ran |-> FALSE, err |-> FALSE, done |-> FALSE]

CmdIdle == cmdCall = NoCmdCall /\ cmdRun = NoRun

CmdInit == cmdCall = NoCmdCall /\ cmdRun = NoRun

\* a service function is called with a word and, for save and update, the
\* content to store
CmdCall ==
  /\ cmdCall = NoCmdCall
  /\ \E c \in CmdCalls :
       \E word \in Strings(MaxArgLen) :
         \E content \in IF c[2] = "query" THEN {<<>>} ELSE Strings(MaxArgLen - Len(word)) :
           cmdCall' = [variant |-> c[1], op |-> c[2], word |-> word, content |-> content]
  /\ cmdRun' = NoRun

\* execSync(command) / spawn(executablePath, args)
CmdExec ==
  /\ cmdCall # NoCmdCall
  /\ ~cmdRun.done
  /\ LET r == RunCli(cmdCall.variant, cmdCall.op, cmdCall.word, cmdCall.content)
     IN cmdRun' = [argv |-> r.argv, expanded |-> r.expanded, ran |-> r.ran,
                   err |-> r.err, done |-> TRUE]
  /\ UNCHANGED cmdCall

\* the service function returns
CmdReturn ==
  /\ cmdRun.done
  /\ cmdCall' = NoCmdCall
  /\ cmdRun' = NoRun

CmdNext ==
  /\ \/ CmdCall
     \/ CmdExec
     \/ CmdReturn
  /\ UNCHANGED <<coreVars, midVars, classVars, entryVars, launchVars, toastVars, fetchVars, sentVars, locVars>>

Exact(call, run) ==
  /\ ~run.err
  /\ ~run.ran
  /\ ~run.expanded
  /\ run.argv = IntendedArgs(call.variant, call.op, call.word, call.content)

ShellSpecial(s) == \E i \in 1..Len(s) : s[i] \in {"\\", "$", Backtick}

\* C33: for every word and content string, double quotes, backslashes, '$',
\* backticks and newlines included, the CLI process of query, save and
\* update receives exactly the strings the extension passed, and no part of
\* them runs as a shell command.
C33_ArgumentsArriveExact ==
  cmdCall # NoCmdCall /\ cmdRun.done => Exact(cmdCall, cmdRun)

\* what the code does: arguments handed to spawn arrive exact, and so do
\* command-line arguments whose double quotes were escaped and that hold no
\* backslash, dollar sign or backtick
C33_PlainArgumentsArriveExact ==
  cmdCall # NoCmdCall /\ cmdRun.done =>
    \/ Exact(cmdCall, cmdRun)
    \/ /\ cmdCall.variant = "execSync" \/ cmdCall.op = "query" \/ cmdCall.variant = "part_001"
       /\ \/ ShellSpecial(cmdCall.word)
          \/ ShellSpecial(cmdCall.content)
          \/ cmdCall.variant # "execSync" /\ \E i \in 1..Len(cmdCall.word) : cmdCall.word[i] = "\""

\* ------------------------------------------------------------------------
\* Specifications: one component runs, the others stay as constructed
\* ------------------------------------------------------------------------
CoreIdle == ParseIdle /\ CliIdle /\ HookIdle /\ StoreIdle /\ SyncIdle /\ ComposeIdle
MidIdle == SvcIdle /\ ReadIdle /\ ProcIdle
ExtraIdle ==
  ClassIdle /\ EntryIdle /\ LaunchIdle /\ ToastIdle /\ FetchIdle /\ SentenceIdle
    /\ LocIdle
    /\ CmdIdle
LaterIdle == MidIdle /\ ExtraIdle

ParseStart == ParseInit /\ CliIdle /\ HookIdle /\ StoreIdle /\ SyncIdle /\ ComposeIdle /\ LaterIdle
SpecParse == ParseStart /\ [][ParseNext]_vars

CliStart == CliInit /\ ParseIdle /\ HookIdle /\ StoreIdle /\ SyncIdle /\ ComposeIdle /\ LaterIdle
SpecCli == CliStart /\ [][CliNext]_vars

HookStart == HookInit /\ ParseIdle /\ CliIdle /\ StoreIdle /\ SyncIdle /\ ComposeIdle /\ LaterIdle
SpecHook == HookStart /\ [][HookNext]_vars

StoreStart == StoreInit /\ ParseIdle /\ CliIdle /\ HookIdle /\ SyncIdle /\ ComposeIdle /\ LaterIdle
SpecStore == StoreStart /\ [][StoreNext]_vars

SyncStart == SyncInit /\ ParseIdle /\ CliIdle /\ HookIdle /\ StoreIdle /\ ComposeIdle /\ LaterIdle
SpecSync == SyncStart /\ [][SyncNext]_vars

ComposeStart == ComposeInit /\ ParseIdle /\ CliIdle /\ HookIdle /\ StoreIdle /\ SyncIdle /\ LaterIdle
SpecCompose == ComposeStart /\ [][ComposeNext]_vars

SvcStartState == SvcInit /\ CoreIdle /\ ReadIdle /\ ProcIdle /\ ExtraIdle
SpecSvc == SvcStartState /\ [][SvcNext]_vars
\* the extension's own steps (handlers, timers) are taken when due; the
\* subprocess is under no obligation to exit
SpecSvcLive == SpecSvc /\ WF_vars(SvcHandlers /\ UNCHANGED <<coreVars, readVars, procVars, extraVars>>)

ReadStart == ReadInit /\ CoreIdle /\ SvcIdle /\ ProcIdle /\ ExtraIdle
SpecRead == ReadStart /\ [][ReadNext]_vars

ProcStart == ProcInit /\ CoreIdle /\ SvcIdle /\ ReadIdle /\ ExtraIdle
SpecProc == ProcStart /\ [][ProcNext]_vars

ClassStart == ClassInit /\ CoreIdle /\ MidIdle /\ EntryIdle /\ LaunchIdle /\ ToastIdle /\ FetchIdle /\ SentenceIdle
    /\ LocIdle
    /\ CmdIdle
SpecClass == ClassStart /\ [][ClassNext]_vars

EntryStart == EntryInit /\ CoreIdle /\ MidIdle /\ ClassIdle /\ LaunchIdle /\ ToastIdle /\ FetchIdle /\ SentenceIdle
    /\ LocIdle
    /\ CmdIdle
SpecEntry == EntryStart /\ [][EntryNext]_vars

LaunchStart == LaunchInit /\ CoreIdle /\ MidIdle /\ ClassIdle /\ EntryIdle /\ ToastIdle /\ FetchIdle /\ SentenceIdle
    /\ LocIdle
    /\ CmdIdle
SpecLaunch == LaunchStart /\ [][LaunchNext]_vars

ToastStartState == ToastInit /\ CoreIdle /\ MidIdle /\ ClassIdle /\ EntryIdle /\ LaunchIdle /\ FetchIdle /\ SentenceIdle
    /\ LocIdle
    /\ CmdIdle
SpecToast == ToastStartState /\ [][ToastNext]_vars

FetchStartState ==
  FetchInit /\ CoreIdle /\ MidIdle /\ ClassIdle /\ EntryIdle /\ LaunchIdle /\ ToastIdle
    /\ SentenceIdle
    /\ LocIdle
    /\ CmdIdle
SpecFetch == FetchStartState /\ [][FetchNext]_vars

SentenceStart ==
  SentenceInit /\ CoreIdle /\ MidIdle /\ ClassIdle /\ EntryIdle /\ LaunchIdle /\ ToastIdle
    /\ FetchIdle
    /\ LocIdle
    /\ CmdIdle
SpecSentence == SentenceStart /\ [][SentenceNext]_vars

LocStart ==
  LocInit /\ CoreIdle /\ MidIdle /\ ClassIdle /\ EntryIdle /\ LaunchIdle /\ ToastIdle
    /\ FetchIdle /\ SentenceIdle
    /\ CmdIdle
SpecLoc == LocStart /\ [][LocNext]_vars

CmdStart ==
  CmdInit /\ CoreIdle /\ MidIdle /\ ClassIdle /\ EntryIdle /\ LaunchIdle /\ ToastIdle
    /\ FetchIdle /\ SentenceIdle /\ LocIdle
SpecCmd == CmdStart /\ [][CmdNext]_vars

====
